---------------------------- MODULE Spec2Model ----------------------------
(***************************************************************************)
(* State-machine models of the messaging example programs.  Each example   *)
(* is a separate program: it has its own variables, its own initial        *)
(* predicate and its own specification.  The message broker and the        *)
(* client library's context thread are modelled as the environment the     *)
(* examples' header comments and call sites describe.                      *)
(***************************************************************************)
EXTENDS Integers, Sequences, FiniteSets, TLC

(***************************************************************************)
(* Bounds of the model.                                                    *)
(***************************************************************************)
MaxPublish == 21
MaxNumMsgs == 3
MaxOtherEvents == 1
MaxTime == 6
MaxArgs == 2
MaxOver == 2
MaxCached == 2
\* send calls of perfTest's pubThread that fail in one run
MaxSendFailures == 2
\* connection attempts counted in one solClient_session_connect
MaxAttempts == 5
\* publisher threads perfTest is asked to start
MaxThreads == 2
\* characters of a user name argument, and bytes of a name buffer
MaxLen == 3
MaxBuf == 2

(***************************************************************************)
(* flowControlQueue.c                                                      *)
(***************************************************************************)
VARIABLES
    fcMain,           \* position of main()
    fcCb,             \* position of flowMsgCallbackFunc on the context thread
    fcCbMsg,          \* msgId of the message the callback is processing
    flow_receiving,   \* int flow_receiving
    unackedMsgId,     \* solClient_msgId_t unackedMsgId
    publishCount,     \* int publishCount
    fcGotCtlC,        \* gotCtlC
    fcSent,           \* number of messages the broker accepted for the queue
    fcQueue,          \* ids spooled on the queue and not yet delivered
    fcUnacked,        \* ids delivered to the callback and not yet acknowledged
    fcBound           \* the flow is bound

fcVars == <<fcMain, fcCb, fcCbMsg, flow_receiving, unackedMsgId, publishCount,
            fcGotCtlC, fcSent, fcQueue, fcUnacked, fcBound>>

(***************************************************************************)
(* activeFlowIndication.c                                                  *)
(***************************************************************************)
VARIABLES
    afMain,               \* position of main()
    endpointProvisioned,  \* solClient_bool_t endpointProvisioned
    afHandle,             \* flow1_p, flow2_p: TRUE when the pointer is not NULL
    afState,              \* each flow's state as the library reports it
    afReq,                \* bind and unbind requests on their way to the broker
    afQueueExists,        \* the provisioned queue exists on the broker
    afBound,              \* flows bound to the queue on the broker, in bind order
    afActive,             \* flows the broker holds active on the queue
    afEvents,             \* flow events awaiting dispatch on the context thread
    afLog                 \* events flowEventCallbackFunc has printed, per flow

afVars == <<afMain, endpointProvisioned, afHandle, afState, afReq, afQueueExists,
            afBound, afActive, afEvents, afLog>>

(***************************************************************************)
(* adPubAck.c                                                              *)
(***************************************************************************)
VARIABLES
    akMain,               \* position of main()
    numMsgsToSend,        \* commandOpts.numMsgsToSend
    loop,                 \* int loop
    akGotCtlC,            \* gotCtlC
    akMsg,                \* each message buffer: "none", "alloc" or "freed"
    akLive,               \* the correlation entries malloc'ed and not yet freed
    akFreedBy,            \* who freed each entry: "none", "housekeeping", "cleanup"
    next_p,               \* messageCorrelationStruct.next_p of each entry
    isAcked,              \* messageCorrelationStruct.isAcked of each entry
    isAccepted,           \* messageCorrelationStruct.isAccepted of each entry
    msgMemoryListHead_p,  \* head of the list, NULL when empty
    msgMemoryListTail_p,  \* tail of the list, NULL when empty
    akInFlight,           \* messages sent and not yet answered by the broker
    akEvents,             \* session events awaiting dispatch on the context thread
    akOther,              \* number of session events of other types raised so far
    akCb,                 \* position of adPubAck_eventCallback
    akCbEv,               \* the event the callback is processing
    akHandled,            \* the event type the callback has returned from, per entry
    akUseAfterFree        \* the callback wrote to an entry that was already freed

akVars == <<akMain, numMsgsToSend, loop, akGotCtlC, akMsg, akLive, akFreedBy, next_p,
            isAcked, isAccepted, msgMemoryListHead_p, msgMemoryListTail_p,
            akInFlight, akEvents, akOther, akCb, akCbEv, akHandled, akUseAfterFree>>

(***************************************************************************)
(* messageTTLAndDeadMessageQueue.c                                         *)
(***************************************************************************)
VARIABLES
    ttMain,             \* position of main()
    ttI,                \* int i
    ttNow,              \* the time, in seconds
    ttSleepStart,       \* when sleepInSec ( 5 ) was entered
    ttSent,             \* the messages solClient_session_sendMsg accepted
    ttWire,             \* messages on their way from the session to the appliance
    ttQueue,            \* COMMON_TESTQ
    ttDmq,              \* COMMON_DMQ_NAME
    ttExpired,          \* the messages whose TTL ran out on COMMON_TESTQ
    ttFlowTransit,      \* messages on their way from COMMON_TESTQ to flow_p
    ttDmqTransit,       \* messages on their way from the DMQ to dmqFlow_p
    ttFlowBound,        \* flow_p != NULL
    ttDmqBound,         \* dmqFlow_p != NULL
    ttBinds,            \* how many times flow_p was bound
    ttStopped,          \* flow_p's window is closed (solClient_flow_stop)
    flowRxMsgCounter,   \* int flowRxMsgCounter
    dmqRxMsgCounter,    \* int dmqRxMsgCounter
    ttFlowLog           \* the messages handed to flow_p's receive callback

ttVars == <<ttMain, ttI, ttNow, ttSleepStart, ttSent, ttWire, ttQueue, ttDmq,
            ttExpired, ttFlowTransit, ttDmqTransit, ttFlowBound, ttDmqBound,
            ttBinds, ttStopped, flowRxMsgCounter, dmqRxMsgCounter, ttFlowLog>>

(***************************************************************************)
(* Command line and exit status: common_parseCommandOptions and the main() *)
(* of topicDispatch.c and of perfTest.c                                    *)
(***************************************************************************)
VARIABLES
    pxProgram,     \* which example runs
    pxArgv,        \* the options of the command line, in order
    pxMode,        \* perfTest's PUB_SUB_MODE argument, "none" when absent
    pxMain,        \* position of main()
    pxParsed,      \* common_parseCommandOptions was called
    pxOptind,      \* the option getopt_long returns next
    pxRc,          \* int rc of common_parseCommandOptions
    pxHost,        \* commonOpt->targetHost is not empty
    pxUser,        \* commonOpt->username is not empty
    pxGSS,         \* commonOpt->useGSS
    pxNumMsgs,     \* commonOpt->numMsgsToSend
    pxStatus       \* the exit status of the process, "none" while it runs

pxVars == <<pxProgram, pxArgv, pxMode, pxMain, pxParsed, pxOptind, pxRc, pxHost, pxUser,
            pxGSS, pxNumMsgs, pxStatus>>

(***************************************************************************)
(* noLocalPubSub.c                                                         *)
(***************************************************************************)
VARIABLES
    nlMain,          \* position of main()
    nlConnected,     \* the sessions that are connected
    nlEverConnected, \* the sessions that were connected at some time
    nlDisconnectCalled, \* the sessions solClient_session_disconnect was called on
    nlSubscribed,    \* the sessions subscribed to COMMON_MY_SAMPLE_TOPIC
    nlQueue,         \* COMMON_TESTQ on the appliance: whether it exists, its messages
    nlProvisioned,   \* common_createQueue has provisioned COMMON_TESTQ
    nlDeleteCalled,  \* common_deleteQueue was called
    nlFlowBound,     \* flow_p != NULL
    nlMsgAlloc,      \* msg_p is allocated
    nlDest,          \* the destination set in msg_p
    nlSends,         \* how many of the four messages were sent
    nlWire,          \* messages on their way to the appliance
    nlTransit,       \* messages on their way to each receive callback
    nlRejected,      \* the messages the appliance rejected
    nlCb,            \* the callback the context thread is in, and the counter it loaded
    msgCounterA,     \* solClient_uint32_t msgCounterA
    msgCounterB,     \* solClient_uint32_t msgCounterB
    nlInvoked,       \* callback invocations per counter, since main() last set it
    nlInvokedEver,   \* callback invocations per counter
    nlLog,           \* who received which message
    nlCleanupCalled  \* solClient_cleanup was called

nlVars == <<nlMain, nlConnected, nlEverConnected, nlDisconnectCalled, nlSubscribed,
            nlQueue, nlProvisioned, nlDeleteCalled, nlFlowBound, nlMsgAlloc, nlDest,
            nlSends, nlWire, nlTransit, nlRejected, nlCb, msgCounterA, msgCounterB,
            nlInvoked, nlInvokedEver, nlLog, nlCleanupCalled>>

(***************************************************************************)
(* topicDispatch.c                                                         *)
(***************************************************************************)
VARIABLES
    tdMain,         \* position of main()
    tdStep,         \* which subscription or publish comes next
    tdConnected,    \* the session is connected
    tdSubs,         \* the session's subscriptions on the appliance
    tdTable,        \* the session's dispatch table: pattern and callback
    tdPublished,    \* the messages common_publishMessage has sent
    tdWire,         \* messages on their way to the appliance
    tdTransit,      \* messages on their way to the session
    solMsgRxCount,  \* static int solMsgRxCount[4]
    tdCalls,        \* how many times each callback was given each message
    tdHandled       \* the messages the session has received and dispatched

tdVars == <<tdMain, tdStep, tdConnected, tdSubs, tdTable, tdPublished, tdWire,
            tdTransit, solMsgRxCount, tdCalls, tdHandled>>

(***************************************************************************)
(* transactions.c                                                          *)
(***************************************************************************)
VARIABLES
    txMain,         \* position of main()
    txCb,           \* position of replierFlowRxMsgCallbackFunc
    txTs,           \* each transacted session: "none", "active", "destroyed"
    txFlow,         \* each transacted session's consumer flow is bound
    txPending,      \* per transacted session, the messages sent since its last commit
    txUnacked,      \* per transacted session, the messages received since its last commit
    txTE,           \* the topic endpoint my_sample_request_te
    txReplyQ,       \* the requestor's temporary queue
    txRxQueue,      \* messages the requestor's flow holds for solClient_flow_receiveMsg
    txCommits,      \* per transacted session, the commits that succeeded
    txCbApi,        \* the API calls made from within the flow callback
    txRequestSeen,  \* the replier's callback has been given the request
    txReplySeen     \* solClient_flow_receiveMsg has returned the reply

txVars == <<txMain, txCb, txTs, txFlow, txPending, txUnacked, txTE, txReplyQ,
            txRxQueue, txCommits, txCbApi, txRequestSeen, txReplySeen>>

(***************************************************************************)
(* messageReplay.c                                                         *)
(***************************************************************************)
VARIABLES
    mrMain,             \* position of main()
    mrCb,               \* position of messageReceiveCallback
    mrConnected,        \* the session is connected
    mrSubscribed,       \* the session is subscribed to the topic
    mrWire,             \* messages on their way to the appliance
    mrTransit,          \* messages on their way to the session
    msgReceived_s,      \* static int volatile msgReceived_s
    mrCbApi,            \* the API calls made from within the callback
    mrUnsubscribeCalled,
    mrDisconnectCalled,
    mrCleanupCalled

mrVars == <<mrMain, mrCb, mrConnected, mrSubscribed, mrWire, mrTransit,
            msgReceived_s, mrCbApi, mrUnsubscribeCalled, mrDisconnectCalled,
            mrCleanupCalled>>

(***************************************************************************)
(* asyncCacheRequest.c and syncCacheRequest.c                              *)
(***************************************************************************)
VARIABLES
    crProgram,      \* which of the two programs runs
    crMain,         \* position of main()
    crConnected,    \* the session is connected
    crCached,       \* the messages the cache holds for the topic
    crCacheSession, \* the cache session exists
    cacheFlags,     \* the flags main() gives solClient_cacheSession_sendCacheRequest
    crRequest,      \* the cache request: "none", "pending", "responded", "timedout", "cancelled"
    crRc,           \* what solClient_cacheSession_sendCacheRequest returned
    crAtReturn,     \* the state of the request when the call returned
    crDispatch,     \* what the context thread has yet to hand to the callbacks
    crReceived,     \* the messages the message receive callback was given
    crEvents        \* the calls of cache_eventCallback

crVars == <<crProgram, crMain, crConnected, crCached, crCacheSession, cacheFlags,
            crRequest, crRc, crAtReturn, crDispatch, crReceived, crEvents>>

\* replication.c: main(), the session's responses and the publisher statistics
VARIABLES rpMain, rpNumMsgs, rpLoop, rpGotCtlC, rpSent, rpInFlight, rpEvents,
          rpOther, acknowledgementRx_m, rejectedMsgRx_m
rpVars == <<rpMain, rpNumMsgs, rpLoop, rpGotCtlC, rpSent, rpInFlight, rpEvents,
            rpOther, acknowledgementRx_m, rejectedMsgRx_m>>

\* perfTest.c: pubThread() and the signal handler
VARIABLES ptMain, msgNum_s, exitEarly_s, txCount, groupCount, sendRc, ptFailures
ptVars == <<ptMain, msgNum_s, exitEarly_s, txCount, groupCount, sendRc, ptFailures>>

\* common.c: common_createAndConnectSession and the example that calls it
VARIABLES cnMain, cnOpts, cnReachable, sessionProps, cnSession, cnRetriesLeft,
          cnAttempts, cnRc
cnVars == <<cnMain, cnOpts, cnReachable, sessionProps, cnSession, cnRetriesLeft,
            cnAttempts, cnRc>>

\* RRGuaranteedRequester.c: main(), the reply flow's callback and the request
\* on its way
VARIABLES rqMain, operation, replyReceived, waitInSec, rqGotCtlC, rqFlow,
          rqRequests, rqReplies, rqTimeoutLogged
rqVars == <<rqMain, operation, replyReceived, waitInSec, rqGotCtlC, rqFlow,
            rqRequests, rqReplies, rqTimeoutLogged>>

\* RRGuaranteedReplier.c: flowMsgCallbackFunc on one request
VARIABLES rlCb, rlRequest, resultOk, rlResult, rlReplyMsg, rlContent, rlSent, rlFailed
rlVars == <<rlCb, rlRequest, resultOk, rlResult, rlReplyMsg, rlContent, rlSent, rlFailed>>

\* queueProvision.c: main()
VARIABLES qpMain, usingDurable, qpProvisioned, qpFlow, qpGotCtlC, qpSent,
          qpDestroyed, qpQueue
qpVars == <<qpMain, usingDurable, qpProvisioned, qpFlow, qpGotCtlC, qpSent,
            qpDestroyed, qpQueue>>

\* perfTest.c: main() from the start of the publisher threads to the cleanup
VARIABLES pmMain, numThread, usePub_s, pmLoop, pmThread, pmSession, pmExitEarly
pmVars == <<pmMain, numThread, usePub_s, pmLoop, pmThread, pmSession, pmExitEarly>>

\* common.c: one call of common_parseUsernameAndVpn
VARIABLES puMain, inName, usernameLen, vpnLen, outUsername, outVpn, puOutside
puVars == <<puMain, inName, usernameLen, vpnLen, outUsername, outVpn, puOutside>>

vars == <<fcVars, afVars, akVars, ttVars, pxVars, nlVars, tdVars, txVars, mrVars, crVars, rpVars, ptVars, cnVars, rqVars, rlVars, qpVars, pmVars, puVars>>

\* what each example leaves alone: the other examples' variables
fcOthers == <<afVars, akVars, ttVars, pxVars, nlVars, tdVars, txVars, mrVars, crVars, rpVars, ptVars, cnVars, rqVars, rlVars, qpVars, pmVars, puVars>>
afOthers == <<fcVars, akVars, ttVars, pxVars, nlVars, tdVars, txVars, mrVars, crVars, rpVars, ptVars, cnVars, rqVars, rlVars, qpVars, pmVars, puVars>>
akOthers == <<fcVars, afVars, ttVars, pxVars, nlVars, tdVars, txVars, mrVars, crVars, rpVars, ptVars, cnVars, rqVars, rlVars, qpVars, pmVars, puVars>>
ttOthers == <<fcVars, afVars, akVars, pxVars, nlVars, tdVars, txVars, mrVars, crVars, rpVars, ptVars, cnVars, rqVars, rlVars, qpVars, pmVars, puVars>>
pxOthers == <<fcVars, afVars, akVars, ttVars, nlVars, tdVars, txVars, mrVars, crVars, rpVars, ptVars, cnVars, rqVars, rlVars, qpVars, pmVars, puVars>>
nlOthers == <<fcVars, afVars, akVars, ttVars, pxVars, tdVars, txVars, mrVars, crVars, rpVars, ptVars, cnVars, rqVars, rlVars, qpVars, pmVars, puVars>>
tdOthers == <<fcVars, afVars, akVars, ttVars, pxVars, nlVars, txVars, mrVars, crVars, rpVars, ptVars, cnVars, rqVars, rlVars, qpVars, pmVars, puVars>>
txOthers == <<fcVars, afVars, akVars, ttVars, pxVars, nlVars, tdVars, mrVars, crVars, rpVars, ptVars, cnVars, rqVars, rlVars, qpVars, pmVars, puVars>>
mrOthers == <<fcVars, afVars, akVars, ttVars, pxVars, nlVars, tdVars, txVars, crVars, rpVars, ptVars, cnVars, rqVars, rlVars, qpVars, pmVars, puVars>>
crOthers == <<fcVars, afVars, akVars, ttVars, pxVars, nlVars, tdVars, txVars, mrVars, rpVars, ptVars, cnVars, rqVars, rlVars, qpVars, pmVars, puVars>>
rpOthers == <<fcVars, afVars, akVars, ttVars, pxVars, nlVars, tdVars, txVars, mrVars, crVars, ptVars, cnVars, rqVars, rlVars, qpVars, pmVars, puVars>>
ptOthers == <<fcVars, afVars, akVars, ttVars, pxVars, nlVars, tdVars, txVars, mrVars, crVars, rpVars, cnVars, rqVars, rlVars, qpVars, pmVars, puVars>>
cnOthers == <<fcVars, afVars, akVars, ttVars, pxVars, nlVars, tdVars, txVars, mrVars, crVars, rpVars, ptVars, rqVars, rlVars, qpVars, pmVars, puVars>>
rqOthers == <<fcVars, afVars, akVars, ttVars, pxVars, nlVars, tdVars, txVars, mrVars, crVars, rpVars, ptVars, cnVars, rlVars, qpVars, pmVars, puVars>>
rlOthers == <<fcVars, afVars, akVars, ttVars, pxVars, nlVars, tdVars, txVars, mrVars, crVars, rpVars, ptVars, cnVars, rqVars, qpVars, pmVars, puVars>>
qpOthers == <<fcVars, afVars, akVars, ttVars, pxVars, nlVars, tdVars, txVars, mrVars, crVars, rpVars, ptVars, cnVars, rqVars, rlVars, pmVars, puVars>>
pmOthers == <<fcVars, afVars, akVars, ttVars, pxVars, nlVars, tdVars, txVars, mrVars, crVars, rpVars, ptVars, cnVars, rqVars, rlVars, qpVars, puVars>>
puOthers == <<fcVars, afVars, akVars, ttVars, pxVars, nlVars, tdVars, txVars, mrVars, crVars, rpVars, ptVars, cnVars, rqVars, rlVars, qpVars, pmVars>>

\* the other examples' variables at rest
FcIdle ==
    /\ fcMain = "off" /\ fcCb = "idle" /\ fcCbMsg = 0 /\ flow_receiving = 1
    /\ unackedMsgId = 0 /\ publishCount = 0 /\ fcGotCtlC = FALSE /\ fcSent = 0
    /\ fcQueue = <<>> /\ fcUnacked = {} /\ fcBound = FALSE

AfIdle ==
    /\ afMain = "off" /\ endpointProvisioned = FALSE
    /\ afHandle = [f \in {1, 2} |-> FALSE]
    /\ afState = [f \in {1, 2} |-> "Unbound"]
    /\ afReq = <<>> /\ afQueueExists = FALSE /\ afBound = <<>> /\ afActive = {}
    /\ afEvents = <<>> /\ afLog = [f \in {1, 2} |-> <<>>]

NULL == -1

\* the entries: msgMemoryItem_p->msgId = loop
AkIds == 0..(MaxNumMsgs - 1)

AkNoEvent == [type |-> "none", corr |-> NULL]

\* session events adPubAck_eventCallback only logs
AkOtherTypes == {"CAN_SEND", "DOWN_ERROR", "UNRECOGNIZED"}

AkIdle ==
    /\ akMain = "off" /\ numMsgsToSend = 0 /\ loop = 0 /\ akGotCtlC = FALSE
    /\ akMsg = [i \in AkIds |-> "none"]
    /\ akLive = {}
    /\ akFreedBy = [i \in AkIds |-> "none"]
    /\ next_p = [i \in AkIds |-> NULL]
    /\ isAcked = [i \in AkIds |-> FALSE]
    /\ isAccepted = [i \in AkIds |-> FALSE]
    /\ msgMemoryListHead_p = NULL /\ msgMemoryListTail_p = NULL
    /\ akInFlight = <<>> /\ akEvents = <<>> /\ akOther = 0
    /\ akCb = "idle" /\ akCbEv = AkNoEvent
    /\ akHandled = [i \in AkIds |-> "none"]
    /\ akUseAfterFree = FALSE

TtIdle ==
    /\ ttMain = "off" /\ ttI = 0 /\ ttNow = 0 /\ ttSleepStart = 0
    /\ ttSent = {} /\ ttWire = <<>> /\ ttQueue = <<>> /\ ttDmq = <<>>
    /\ ttExpired = {} /\ ttFlowTransit = <<>> /\ ttDmqTransit = <<>>
    /\ ttFlowBound = FALSE /\ ttDmqBound = FALSE /\ ttBinds = 0
    /\ ttStopped = FALSE
    /\ flowRxMsgCounter = 0 /\ dmqRxMsgCounter = 0 /\ ttFlowLog = <<>>

PxIdle ==
    /\ pxProgram = "none" /\ pxArgv = <<>> /\ pxMode = "none" /\ pxMain = "off"
    /\ pxParsed = FALSE
    /\ pxOptind = 1 /\ pxRc = 1 /\ pxHost = FALSE /\ pxUser = FALSE
    /\ pxGSS = FALSE /\ pxNumMsgs = 1 /\ pxStatus = "none"

\* COMMON_TESTQ does not exist on the appliance
NlNoQueue == [exists |-> FALSE, msgs |-> <<>>]

NlIdle ==
    /\ nlMain = "off" /\ nlConnected = {} /\ nlEverConnected = {}
    /\ nlDisconnectCalled = {} /\ nlSubscribed = {} /\ nlQueue = NlNoQueue
    /\ nlProvisioned = FALSE /\ nlDeleteCalled = FALSE /\ nlFlowBound = FALSE
    /\ nlMsgAlloc = FALSE /\ nlDest = "none" /\ nlSends = 0 /\ nlWire = <<>>
    /\ nlTransit = [t \in {"A", "B", "flow"} |-> <<>>]
    /\ nlRejected = {} /\ nlCb = [who |-> "none", loaded |-> 0]
    /\ msgCounterA = 0 /\ msgCounterB = 0
    /\ nlInvoked = [c \in {"A", "B"} |-> 0]
    /\ nlInvokedEver = [c \in {"A", "B"} |-> 0]
    /\ nlLog = {} /\ nlCleanupCalled = FALSE

TdIdle ==
    /\ tdMain = "off" /\ tdStep = 1 /\ tdConnected = FALSE /\ tdSubs = {}
    /\ tdTable = {} /\ tdPublished = {} /\ tdWire = <<>> /\ tdTransit = <<>>
    /\ solMsgRxCount = [c \in 0..3 |-> 0]
    /\ tdCalls = [k \in 1..4 |-> [c \in 0..3 |-> 0]]
    /\ tdHandled = {}

TxSessions == {"Requestor", "Replier"}

TxNoEndpoint == [exists |-> FALSE, msgs |-> <<>>]

TxIdle ==
    /\ txMain = "off" /\ txCb = "idle"
    /\ txTs = [s \in TxSessions |-> "none"]
    /\ txFlow = [s \in TxSessions |-> FALSE]
    /\ txPending = [s \in TxSessions |-> <<>>]
    /\ txUnacked = [s \in TxSessions |-> <<>>]
    /\ txTE = TxNoEndpoint /\ txReplyQ = TxNoEndpoint
    /\ txRxQueue = <<>>
    /\ txCommits = [s \in TxSessions |-> 0]
    /\ txCbApi = {}
    /\ txRequestSeen = FALSE /\ txReplySeen = FALSE

MrIdle ==
    /\ mrMain = "off" /\ mrCb = "idle" /\ mrConnected = FALSE /\ mrSubscribed = FALSE
    /\ mrWire = 0 /\ mrTransit = 0 /\ msgReceived_s = 0 /\ mrCbApi = {}
    /\ mrUnsubscribeCalled = FALSE /\ mrDisconnectCalled = FALSE
    /\ mrCleanupCalled = FALSE

CrIdle ==
    /\ crProgram = "none" /\ crMain = "off" /\ crConnected = FALSE /\ crCached = 0
    /\ crCacheSession = FALSE /\ cacheFlags = {} /\ crRequest = "none"
    /\ crRc = "none" /\ crAtReturn = "none" /\ crDispatch = <<>>
    /\ crReceived = 0 /\ crEvents = 0

RpIdle ==
    /\ rpMain = "off" /\ rpNumMsgs = 0 /\ rpLoop = 0 /\ rpGotCtlC = FALSE
    /\ rpSent = 0 /\ rpInFlight = 0 /\ rpEvents = <<>> /\ rpOther = 0
    /\ acknowledgementRx_m = 0 /\ rejectedMsgRx_m = 0

PtIdle ==
    /\ ptMain = "off" /\ msgNum_s = 0 /\ exitEarly_s = 0 /\ txCount = 0
    /\ groupCount = 0 /\ sendRc = "none" /\ ptFailures = 0

CnNoProps == [host |-> FALSE, compression |-> "", connectRetries |-> "",
              reconnectRetries |-> "", vpn |-> FALSE, gss |-> FALSE]
CnNoOpts == [targetHost |-> FALSE, enableCompression |-> FALSE, vpn |-> FALSE,
             useGSS |-> FALSE]
CnIdle ==
    /\ cnMain = "off" /\ cnOpts = CnNoOpts /\ cnReachable = FALSE
    /\ sessionProps = CnNoProps /\ cnSession = FALSE /\ cnRetriesLeft = 0
    /\ cnAttempts = 0 /\ cnRc = "none"

RqIdle ==
    /\ rqMain = "off" /\ operation = 0 /\ replyReceived = FALSE /\ waitInSec = 0
    /\ rqGotCtlC = FALSE /\ rqFlow = FALSE /\ rqRequests = 0 /\ rqReplies = 0
    /\ rqTimeoutLogged = FALSE

RlNoRequest == [replyTo |-> "none", parse |-> "none", operation |-> 0, operand1 |-> 0,
                operand2 |-> 0]
RlNoResult == [num |-> 0, den |-> 0]
RlNoContent == [status |-> FALSE, result |-> RlNoResult]
RlIdle ==
    /\ rlCb = "off" /\ rlRequest = RlNoRequest /\ resultOk = FALSE
    /\ rlResult = RlNoResult /\ rlReplyMsg = "none" /\ rlContent = RlNoContent
    /\ rlSent = <<>> /\ rlFailed = FALSE

QpIdle ==
    /\ qpMain = "off" /\ usingDurable = FALSE /\ qpProvisioned = FALSE
    /\ qpFlow = "unassigned" /\ qpGotCtlC = FALSE /\ qpSent = 0 /\ qpDestroyed = {} /\ qpQueue = "none"

PmIdle ==
    /\ pmMain = "off" /\ numThread = 0 /\ usePub_s = FALSE /\ pmLoop = 0
    /\ pmThread = <<>> /\ pmSession = "none" /\ pmExitEarly = FALSE

PuIdle ==
    /\ puMain = "off" /\ inName = <<>> /\ usernameLen = 0 /\ vpnLen = 0
    /\ outUsername = <<>> /\ outVpn = <<>> /\ puOutside = {}

\* flowProps: SOLCLIENT_FLOW_PROP_MAX_UNACKED_MESSAGES = "1"
MaxUnackedMessages == 1
\* ( publishCount % 10 ) == 0
TogglePeriod == 10

\* a window one message wider than the example asks for
FlowPropsWiderWindow == [maxUnacked |-> MaxUnackedMessages + 1, ackMode |-> "client", blocking |-> TRUE]

\* the flow properties main() hands to solClient_session_createFlow
FlowProps == [maxUnacked |-> MaxUnackedMessages, ackMode |-> "client", blocking |-> TRUE]

FcInit ==
    /\ fcMain = "createFlow"
    /\ fcCb = "idle"
    /\ fcCbMsg = 0
    /\ flow_receiving = 1
    /\ unackedMsgId = 0
    /\ publishCount = 0
    /\ fcGotCtlC = FALSE
    /\ fcSent = 0
    /\ fcQueue = <<>>
    /\ fcUnacked = {}
    /\ fcBound = FALSE

\* solClient_flow_sendAck ( flow, id ): the broker forgets the id when the
\* call succeeds; it fails on a flow that is no longer bound.
FcSendAck(id, ok) ==
    fcUnacked' = IF ok /\ fcBound THEN fcUnacked \ {id} ELSE fcUnacked

\* solClient_session_createFlow (blocking bind)
FcCreateFlow ==
    /\ UNCHANGED fcOthers
    /\ fcMain = "createFlow"
    /\ \E ok \in BOOLEAN :
         /\ fcBound' = ok
         /\ fcMain' = IF ok THEN "loop" ELSE "sessionConnected"
    /\ UNCHANGED <<fcCb, fcCbMsg, flow_receiving, unackedMsgId, publishCount,
                   fcGotCtlC, fcSent, fcQueue, fcUnacked>>

\* while ( !gotCtlC )
FcLoop ==
    /\ UNCHANGED fcOthers
    /\ fcMain = "loop"
    /\ fcMain' = IF fcGotCtlC THEN "cleanupFlow" ELSE "publish"
    /\ UNCHANGED <<fcCb, fcCbMsg, flow_receiving, unackedMsgId, publishCount,
                   fcGotCtlC, fcSent, fcQueue, fcUnacked, fcBound>>

\* solClient_msg_alloc ... solClient_session_sendMsg, solClient_msg_free,
\* publishCount++
FcPublish ==
    /\ UNCHANGED fcOthers
    /\ fcMain = "publish"
    /\ publishCount < MaxPublish
    /\ \E outcome \in {"ok", "buildFail", "sendFail", "freeFail"} :
         /\ IF outcome \in {"ok", "freeFail"}
              THEN /\ fcSent' = fcSent + 1
                   /\ fcQueue' = Append(fcQueue, fcSent + 1)
              ELSE UNCHANGED <<fcSent, fcQueue>>
         /\ publishCount' = IF outcome = "ok" THEN publishCount + 1 ELSE publishCount
         /\ fcMain' = IF outcome = "ok" THEN "toggle" ELSE "cleanupFlow"
    /\ UNCHANGED <<fcCb, fcCbMsg, flow_receiving, unackedMsgId, fcGotCtlC,
                   fcUnacked, fcBound>>

\* if ( ( publishCount % 10 ) == 0 ) { if ( flow_receiving ) flow_receiving = 0; else ...
FcToggle ==
    /\ UNCHANGED fcOthers
    /\ fcMain = "toggle"
    /\ IF publishCount % TogglePeriod # 0
         THEN /\ fcMain' = "sleep"
              /\ UNCHANGED flow_receiving
         ELSE IF flow_receiving # 0
                THEN /\ flow_receiving' = 0
                     /\ fcMain' = "sleep"
                ELSE /\ fcMain' = "chkUnacked"
                     /\ UNCHANGED flow_receiving
    /\ UNCHANGED <<fcCb, fcCbMsg, unackedMsgId, publishCount, fcGotCtlC, fcSent,
                   fcQueue, fcUnacked, fcBound>>

\* if ( unackedMsgId )
FcChkUnacked ==
    /\ UNCHANGED fcOthers
    /\ fcMain = "chkUnacked"
    /\ fcMain' = IF unackedMsgId # 0 THEN "sendAck" ELSE "setRecv"
    /\ UNCHANGED <<fcCb, fcCbMsg, flow_receiving, unackedMsgId, publishCount,
                   fcGotCtlC, fcSent, fcQueue, fcUnacked, fcBound>>

\* solClient_flow_sendAck ( flow_p, unackedMsgId )
FcMainSendAck ==
    /\ UNCHANGED fcOthers
    /\ fcMain = "sendAck"
    /\ \E ok \in BOOLEAN : FcSendAck(unackedMsgId, ok)
    /\ fcMain' = "clearUnacked"
    /\ UNCHANGED <<fcCb, fcCbMsg, flow_receiving, unackedMsgId, publishCount,
                   fcGotCtlC, fcSent, fcQueue, fcBound>>

\* unackedMsgId = 0L
FcClearUnacked ==
    /\ UNCHANGED fcOthers
    /\ fcMain = "clearUnacked"
    /\ unackedMsgId' = 0
    /\ fcMain' = "setRecv"
    /\ UNCHANGED <<fcCb, fcCbMsg, flow_receiving, publishCount, fcGotCtlC, fcSent,
                   fcQueue, fcUnacked, fcBound>>

\* flow_receiving = 1
FcSetRecv ==
    /\ UNCHANGED fcOthers
    /\ fcMain = "setRecv"
    /\ flow_receiving' = 1
    /\ fcMain' = "sleep"
    /\ UNCHANGED <<fcCb, fcCbMsg, unackedMsgId, publishCount, fcGotCtlC, fcSent,
                   fcQueue, fcUnacked, fcBound>>

\* sleepInUs ( 500000 )
FcSleep ==
    /\ UNCHANGED fcOthers
    /\ fcMain = "sleep"
    /\ fcMain' = "loop"
    /\ UNCHANGED <<fcCb, fcCbMsg, flow_receiving, unackedMsgId, publishCount,
                   fcGotCtlC, fcSent, fcQueue, fcUnacked, fcBound>>

\* cleanupFlow: solClient_flow_destroy
FcCleanupFlow ==
    /\ UNCHANGED fcOthers
    /\ fcMain = "cleanupFlow"
    /\ fcBound' = FALSE
    /\ fcMain' = "sessionConnected"
    /\ UNCHANGED <<fcCb, fcCbMsg, flow_receiving, unackedMsgId, publishCount,
                   fcGotCtlC, fcSent, fcQueue, fcUnacked>>

\* sessionConnected: solClient_session_disconnect; cleanup: solClient_cleanup
FcDisconnect ==
    /\ UNCHANGED fcOthers
    /\ fcMain = "sessionConnected"
    /\ fcMain' = "done"
    /\ UNCHANGED <<fcCb, fcCbMsg, flow_receiving, unackedMsgId, publishCount,
                   fcGotCtlC, fcSent, fcQueue, fcUnacked, fcBound>>

\* the signal handler sets gotCtlC
FcCtlC ==
    /\ UNCHANGED fcOthers
    /\ ~fcGotCtlC
    /\ fcMain # "done"
    /\ fcGotCtlC' = TRUE
    /\ UNCHANGED <<fcMain, fcCb, fcCbMsg, flow_receiving, unackedMsgId,
                   publishCount, fcSent, fcQueue, fcUnacked, fcBound>>

\* The broker hands the next spooled message to the flow: only while the flow
\* is bound and fewer than maxUnacked delivered messages await their
\* acknowledgement.  The context thread runs one callback at a time.
FcDeliver ==
    /\ UNCHANGED fcOthers
    /\ fcBound
    /\ fcCb = "idle"
    /\ fcQueue # <<>>
    /\ Cardinality(fcUnacked) < FlowProps.maxUnacked
    /\ fcCbMsg' = Head(fcQueue)
    /\ fcQueue' = Tail(fcQueue)
    /\ fcUnacked' = fcUnacked \cup {Head(fcQueue)}
    /\ fcCb' = "dump"
    /\ UNCHANGED <<fcMain, flow_receiving, unackedMsgId, publishCount, fcGotCtlC,
                   fcSent, fcBound>>

\* flowMsgCallbackFunc: solClient_msg_dump, then solClient_msg_getMsgId
FcCbDump ==
    /\ UNCHANGED fcOthers
    /\ fcCb = "dump"
    /\ \E outcome \in {"ok", "dumpFail", "getIdFail"} :
         fcCb' = IF outcome = "ok" THEN "recvCheck" ELSE "idle"
    /\ UNCHANGED <<fcMain, fcCbMsg, flow_receiving, unackedMsgId, publishCount,
                   fcGotCtlC, fcSent, fcQueue, fcUnacked, fcBound>>

\* flowMsgCallbackFunc: if ( flow_receiving )
FcCbRecvCheck ==
    /\ UNCHANGED fcOthers
    /\ fcCb = "recvCheck"
    /\ fcCb' = IF flow_receiving # 0 THEN "ack" ELSE "store"
    /\ UNCHANGED <<fcMain, fcCbMsg, flow_receiving, unackedMsgId, publishCount,
                   fcGotCtlC, fcSent, fcQueue, fcUnacked, fcBound>>

\* flowMsgCallbackFunc: solClient_flow_sendAck ( opaqueFlow_p, msgId )
FcCbAck ==
    /\ UNCHANGED fcOthers
    /\ fcCb = "ack"
    /\ \E ok \in BOOLEAN : FcSendAck(fcCbMsg, ok)
    /\ fcCb' = "idle"
    /\ UNCHANGED <<fcMain, fcCbMsg, flow_receiving, unackedMsgId, publishCount,
                   fcGotCtlC, fcSent, fcQueue, fcBound>>

\* flowMsgCallbackFunc: unackedMsgId = msgId
FcCbStore ==
    /\ UNCHANGED fcOthers
    /\ fcCb = "store"
    /\ unackedMsgId' = fcCbMsg
    /\ fcCb' = "idle"
    /\ UNCHANGED <<fcMain, fcCbMsg, flow_receiving, publishCount, fcGotCtlC,
                   fcSent, fcQueue, fcUnacked, fcBound>>

FcNext ==
    \/ FcCreateFlow
    \/ FcLoop
    \/ FcPublish
    \/ FcToggle
    \/ FcChkUnacked
    \/ FcMainSendAck
    \/ FcClearUnacked
    \/ FcSetRecv
    \/ FcSleep
    \/ FcCleanupFlow
    \/ FcDisconnect
    \/ FcCtlC
    \/ FcDeliver
    \/ FcCbDump
    \/ FcCbRecvCheck
    \/ FcCbAck
    \/ FcCbStore

InitFC == FcInit /\ AfIdle /\ AkIdle /\ TtIdle /\ PxIdle /\ NlIdle /\ TdIdle /\ TxIdle /\ MrIdle /\ CrIdle /\ RpIdle /\ PtIdle /\ CnIdle /\ RqIdle /\ RlIdle /\ QpIdle /\ PmIdle /\ PuIdle

SpecFC == InitFC /\ [][FcNext]_vars

Flows == {1, 2}

\* SeqWithout(s, f): the sequence s without the entries of flow f
RECURSIVE SeqWithout(_, _)
SeqWithout(s, f) ==
    IF s = <<>> THEN <<>>
    ELSE IF Head(s).flow = f THEN SeqWithout(Tail(s), f)
         ELSE <<Head(s)>> \o SeqWithout(Tail(s), f)

\* FlowsWithout(s, f): the sequence of flows s without f
RECURSIVE FlowsWithout(_, _)
FlowsWithout(s, f) ==
    IF s = <<>> THEN <<>>
    ELSE IF Head(s) = f THEN FlowsWithout(Tail(s), f)
         ELSE <<Head(s)>> \o FlowsWithout(Tail(s), f)

AfAccessTypeNonExclusive == "non-exclusive"

\* provProps: SOLCLIENT_ENDPOINT_PROP_ACCESSTYPE = ..._ACCESSTYPE_EXCLUSIVE
AfAccessType == "exclusive"

\* the branch of flowEventCallbackFunc's switch an event takes
AfEventClass(ev) ==
    IF ev \in {"UP_NOTICE", "SESSION_DOWN", "ACTIVE", "INACTIVE"} THEN "info"
    ELSE IF ev \in {"DOWN_ERROR", "BIND_FAILED_ERROR", "REJECTED_MSG_ERROR"} THEN "error"
    ELSE "unrecognized"

\* the events the library hands on for flow f: none once f is destroyed
AfEmit(f, evs) ==
    IF afHandle[f] THEN [i \in 1..Len(evs) |-> [flow |-> f, ev |-> evs[i]]] ELSE <<>>

AfInit ==
    /\ afMain = "provision"
    /\ endpointProvisioned = FALSE
    /\ afHandle = [f \in Flows |-> FALSE]
    /\ afState = [f \in Flows |-> "Unbound"]
    /\ afReq = <<>>
    /\ afQueueExists = FALSE
    /\ afBound = <<>>
    /\ afActive = {}
    /\ afEvents = <<>>
    /\ afLog = [f \in Flows |-> <<>>]

\* the capability checks and solClient_session_endpointProvision
AfProvision ==
    /\ afMain = "provision"
    /\ \E outcome \in {"notCapable", "ok", "failInfo", "failNoInfo"} :
         /\ endpointProvisioned' = (outcome = "ok")
         /\ afQueueExists' = (outcome = "ok")
         /\ afMain' = IF outcome \in {"ok", "failNoInfo"} THEN "createFlow1"
                      ELSE "sessionConnected"
    /\ UNCHANGED <<afHandle, afState, afReq, afBound, afActive, afEvents, afLog>>
    /\ UNCHANGED afOthers

\* a createFlow that binds before it returns, as with BIND_BLOCKING enabled
AfSessionCreateFlowBlocking(f, next) ==
    \E rc \in {"IN_PROGRESS", "FAIL"} :
        IF rc = "IN_PROGRESS"
          THEN /\ afHandle' = [afHandle EXCEPT ![f] = TRUE]
               /\ afState' = [afState EXCEPT ![f] = "Bound"]
               /\ afReq' = Append(afReq, [op |-> "bind", flow |-> f])
               /\ afMain' = next
          ELSE /\ afMain' = "sessionConnected"
               /\ UNCHANGED <<afHandle, afState, afReq>>

\* solClient_session_createFlow with SOLCLIENT_FLOW_PROP_BIND_BLOCKING disabled:
\* SOLCLIENT_IN_PROGRESS leaves the flow binding, anything else is an error
AfSessionCreateFlow(f, next) ==
    \E rc \in {"IN_PROGRESS", "FAIL"} :
        IF rc = "IN_PROGRESS"
          THEN /\ afHandle' = [afHandle EXCEPT ![f] = TRUE]
               /\ afState' = [afState EXCEPT ![f] = "Binding"]
               /\ afReq' = Append(afReq, [op |-> "bind", flow |-> f])
               /\ afMain' = next
          ELSE /\ afMain' = "sessionConnected"
               /\ UNCHANGED <<afHandle, afState, afReq>>

\* "Creating flow 1...", sleepInSec ( 1 )
AfCreateFlow1 ==
    /\ afMain = "createFlow1"
    /\ AfSessionCreateFlow(1, "createFlow2")
    /\ UNCHANGED <<endpointProvisioned, afQueueExists, afBound, afActive, afEvents, afLog>>
    /\ UNCHANGED afOthers

\* "Creating flow 2...", sleepInSec ( 1 )
AfCreateFlow2 ==
    /\ afMain = "createFlow2"
    /\ AfSessionCreateFlow(2, "destroy1")
    /\ UNCHANGED <<endpointProvisioned, afQueueExists, afBound, afActive, afEvents, afLog>>
    /\ UNCHANGED afOthers

\* solClient_flow_destroy ( &flow_p ): the flow is unbound, its pointer is set
\* to NULL and no further event reaches its callback
AfFlowDestroy(f) ==
    /\ afHandle' = [afHandle EXCEPT ![f] = FALSE]
    /\ afState' = [afState EXCEPT ![f] = "Unbound"]
    /\ afEvents' = SeqWithout(afEvents, f)
    /\ afReq' = Append(afReq, [op |-> "unbind", flow |-> f])

\* "Destroying flow 1.", flow1_p = NULL, sleepInSec ( 1 )
AfDestroyFlow1 ==
    /\ afMain = "destroy1"
    /\ AfFlowDestroy(1)
    /\ afMain' = "sessionConnected"
    /\ UNCHANGED <<endpointProvisioned, afQueueExists, afBound, afActive, afLog>>
    /\ UNCHANGED afOthers

\* sessionConnected: if ( endpointProvisioned )
AfSessionConnected ==
    /\ afMain = "sessionConnected"
    /\ afMain' = IF endpointProvisioned THEN "cleanFlow1" ELSE "disconnect"
    /\ UNCHANGED <<endpointProvisioned, afHandle, afState, afReq, afQueueExists,
                   afBound, afActive, afEvents, afLog>>
    /\ UNCHANGED afOthers

\* if (flow1_p) solClient_flow_destroy ( &flow1_p )
AfCleanFlow1 ==
    /\ afMain = "cleanFlow1"
    /\ IF afHandle[1] THEN AfFlowDestroy(1)
       ELSE UNCHANGED <<afHandle, afState, afEvents, afReq>>
    /\ afMain' = "cleanFlow2"
    /\ UNCHANGED <<endpointProvisioned, afQueueExists, afBound, afActive, afLog>>
    /\ UNCHANGED afOthers

\* if (flow2_p) solClient_flow_destroy ( &flow2_p )
AfCleanFlow2 ==
    /\ afMain = "cleanFlow2"
    /\ IF afHandle[2] THEN AfFlowDestroy(2)
       ELSE UNCHANGED <<afHandle, afState, afEvents, afReq>>
    /\ afMain' = "deprovision"
    /\ UNCHANGED <<endpointProvisioned, afQueueExists, afBound, afActive, afLog>>
    /\ UNCHANGED afOthers

\* solClient_session_endpointDeprovision with WAITFORCONFIRM: returns once the
\* broker has answered, after the requests sent before it
AfDeprovision ==
    /\ afMain = "deprovision"
    /\ afReq = <<>>
    /\ afQueueExists' = FALSE
    /\ afMain' = "disconnect"
    /\ UNCHANGED <<endpointProvisioned, afHandle, afState, afReq, afBound, afActive,
                   afEvents, afLog>>
    /\ UNCHANGED afOthers

\* solClient_session_disconnect, solClient_cleanup: the flows still open go
\* with the session
AfDisconnect ==
    /\ afMain = "disconnect"
    /\ afState' = [f \in Flows |-> "Unbound"]
    /\ afReq' = <<>>
    /\ afBound' = <<>>
    /\ afActive' = {}
    /\ afEvents' = <<>>
    /\ afMain' = "done"
    /\ UNCHANGED <<endpointProvisioned, afHandle, afQueueExists, afLog>>
    /\ UNCHANGED afOthers

\* The broker binds a flow to the queue.  On an exclusive queue the flow
\* becomes active only when no other flow is active; the bound flow gets
\* FLOW_UP_NOTICE, and FLOW_ACTIVE when it became active.
AfBrokerBind ==
    /\ afReq # <<>>
    /\ Head(afReq).op = "bind"
    /\ LET f == Head(afReq).flow
           activates == AfAccessType # "exclusive" \/ afActive = {}
       IN  IF afQueueExists
             THEN /\ afBound' = Append(afBound, f)
                  /\ afActive' = IF activates THEN afActive \cup {f} ELSE afActive
                  /\ afEvents' = afEvents \o
                        AfEmit(f, IF activates THEN <<"UP_NOTICE", "ACTIVE">>
                                  ELSE <<"UP_NOTICE">>)
             ELSE /\ afEvents' = afEvents \o AfEmit(f, <<"BIND_FAILED_ERROR">>)
                  /\ UNCHANGED <<afBound, afActive>>
    /\ afReq' = Tail(afReq)
    /\ UNCHANGED <<afMain, endpointProvisioned, afHandle, afState, afQueueExists, afLog>>
    /\ UNCHANGED afOthers

\* the flow the broker promotes when the active flow f leaves: the longest
\* bound of the others that is not active yet
AfPromoted(f) ==
    LET rest == FlowsWithout(afBound, f)
    IN  IF f \in afActive /\ rest # <<>> /\ Head(rest) \notin afActive
          THEN {Head(rest)} ELSE {}

\* The broker unbinds a destroyed flow.  When it was the active flow, the next
\* bound flow becomes active and is sent FLOW_ACTIVE.
AfBrokerUnbind ==
    /\ afReq # <<>>
    /\ Head(afReq).op = "unbind"
    /\ LET f == Head(afReq).flow
       IN  /\ afBound' = FlowsWithout(afBound, f)
           /\ afActive' = (afActive \ {f}) \cup AfPromoted(f)
           /\ afEvents' = IF AfPromoted(f) = {} THEN afEvents
                          ELSE afEvents \o AfEmit(CHOOSE g \in AfPromoted(f) : TRUE,
                                                  <<"ACTIVE">>)
    /\ afReq' = Tail(afReq)
    /\ UNCHANGED <<afMain, endpointProvisioned, afHandle, afState, afQueueExists, afLog>>
    /\ UNCHANGED afOthers

\* the flow state the library reports after an event
AfStateAfter(st, ev) ==
    CASE ev = "UP_NOTICE" -> "Bound"
      [] ev = "ACTIVE" -> "Active"
      [] ev = "BIND_FAILED_ERROR" -> "Unbound"
      [] OTHER -> st

\* The context thread hands the next flow event to flowEventCallbackFunc,
\* which prints it.
AfDispatch ==
    /\ afEvents # <<>>
    /\ LET e == Head(afEvents)
       IN  /\ afLog' = [afLog EXCEPT ![e.flow] =
                           Append(@, [ev |-> e.ev, class |-> AfEventClass(e.ev)])]
           /\ afState' = [afState EXCEPT ![e.flow] = AfStateAfter(@, e.ev)]
    /\ afEvents' = Tail(afEvents)
    /\ UNCHANGED <<afMain, endpointProvisioned, afHandle, afReq, afQueueExists,
                   afBound, afActive>>
    /\ UNCHANGED afOthers

AfNext ==
    \/ AfProvision
    \/ AfCreateFlow1
    \/ AfCreateFlow2
    \/ AfDestroyFlow1
    \/ AfSessionConnected
    \/ AfCleanFlow1
    \/ AfCleanFlow2
    \/ AfDeprovision
    \/ AfDisconnect
    \/ AfBrokerBind
    \/ AfBrokerUnbind
    \/ AfDispatch

InitAF == AfInit /\ FcIdle /\ AkIdle /\ TtIdle /\ PxIdle /\ NlIdle /\ TdIdle /\ TxIdle /\ MrIdle /\ CrIdle /\ RpIdle /\ PtIdle /\ CnIdle /\ RqIdle /\ RlIdle /\ QpIdle /\ PmIdle /\ PuIdle

SpecAF == InitAF /\ [][AfNext]_vars

\* whether flowEventCallbackFunc has printed event ev for flow f
AfLogged(f, ev) == \E i \in 1..Len(afLog[f]) : afLog[f][i].ev = ev

\* whether event ev for flow f awaits dispatch
AfPending(f, ev) == \E i \in 1..Len(afEvents) : afEvents[i] = [flow |-> f, ev |-> ev]

AfMoves ==
    {<<"Unbound", "Binding">>, <<"Binding", "Bound">>, <<"Bound", "Active">>,
     <<"Bound", "Inactive">>, <<"Active", "Inactive">>, <<"Inactive", "Active">>}

AkInit ==
    /\ akMain = "loopTest"
    /\ numMsgsToSend \in 1..MaxNumMsgs
    /\ loop = 0
    /\ akGotCtlC = FALSE
    /\ akMsg = [i \in AkIds |-> "none"]
    /\ akLive = {}
    /\ akFreedBy = [i \in AkIds |-> "none"]
    /\ next_p = [i \in AkIds |-> NULL]
    /\ isAcked = [i \in AkIds |-> FALSE]
    /\ isAccepted = [i \in AkIds |-> FALSE]
    /\ msgMemoryListHead_p = NULL
    /\ msgMemoryListTail_p = NULL
    /\ akInFlight = <<>>
    /\ akEvents = <<>>
    /\ akOther = 0
    /\ akCb = "idle"
    /\ akCbEv = AkNoEvent
    /\ akHandled = [i \in AkIds |-> "none"]
    /\ akUseAfterFree = FALSE

akMainVars == <<akMain, loop, akMsg, akLive, akFreedBy, next_p,
                msgMemoryListHead_p, msgMemoryListTail_p, akInFlight>>
akCbVars == <<isAcked, isAccepted, akEvents, akOther, akCb, akCbEv, akHandled,
              akUseAfterFree>>

\* for ( loop = 0; ( loop < commandOpts.numMsgsToSend ) && !gotCtlC; loop++ )
AkLoopTest ==
    /\ akMain = "loopTest"
    /\ akMain' = IF loop < numMsgsToSend /\ ~akGotCtlC THEN "alloc" ELSE "afterLoop"
    /\ UNCHANGED <<numMsgsToSend, loop, akGotCtlC, akMsg, akLive, akFreedBy, next_p,
                   msgMemoryListHead_p, msgMemoryListTail_p, akInFlight>>
    /\ UNCHANGED akCbVars
    /\ UNCHANGED akOthers

\* solClient_msg_alloc ( &msg_p )
AkAlloc ==
    /\ akMain = "alloc"
    /\ \E ok \in BOOLEAN :
         IF ok THEN /\ akMsg' = [akMsg EXCEPT ![loop] = "alloc"]
                    /\ akMain' = "build"
               ELSE /\ akMain' = "sessionConnected"
                    /\ UNCHANGED akMsg
    /\ UNCHANGED <<numMsgsToSend, loop, akGotCtlC, akLive, akFreedBy, next_p,
                   msgMemoryListHead_p, msgMemoryListTail_p, akInFlight>>
    /\ UNCHANGED akCbVars
    /\ UNCHANGED akOthers

\* solClient_msg_setDeliveryMode, solClient_msg_setBinaryAttachment,
\* solClient_msg_setDestination: on an error, goto sessionConnected
AkBuild ==
    /\ akMain = "build"
    /\ \E ok \in BOOLEAN : akMain' = IF ok THEN "correlate" ELSE "sessionConnected"
    /\ UNCHANGED <<numMsgsToSend, loop, akGotCtlC, akMsg, akLive, akFreedBy, next_p,
                   msgMemoryListHead_p, msgMemoryListTail_p, akInFlight>>
    /\ UNCHANGED akCbVars
    /\ UNCHANGED akOthers

\* malloc of the correlation entry, its initialisation and its appending to
\* the list
AkCorrelate ==
    /\ akMain = "correlate"
    /\ akLive' = akLive \cup {loop}
    /\ next_p' = [i \in AkIds |->
                    IF i = loop THEN NULL
                    ELSE IF i = msgMemoryListTail_p THEN loop
                    ELSE next_p[i]]
    /\ isAcked' = [isAcked EXCEPT ![loop] = FALSE]
    /\ isAccepted' = [isAccepted EXCEPT ![loop] = FALSE]
    /\ msgMemoryListHead_p' =
          IF msgMemoryListHead_p = NULL THEN loop ELSE msgMemoryListHead_p
    /\ msgMemoryListTail_p' = loop
    /\ akMain' = "setTag"
    /\ UNCHANGED <<numMsgsToSend, loop, akGotCtlC, akMsg, akFreedBy, akInFlight,
                   akEvents, akOther, akCb, akCbEv, akHandled, akUseAfterFree>>
    /\ UNCHANGED akOthers

\* solClient_msg_setCorrelationTagPtr
AkSetTag ==
    /\ akMain = "setTag"
    /\ \E ok \in BOOLEAN : akMain' = IF ok THEN "send" ELSE "sessionConnected"
    /\ UNCHANGED <<numMsgsToSend, loop, akGotCtlC, akMsg, akLive, akFreedBy, next_p,
                   msgMemoryListHead_p, msgMemoryListTail_p, akInFlight>>
    /\ UNCHANGED akCbVars
    /\ UNCHANGED akOthers

\* solClient_session_sendMsg; on an error, break.  Then sleepInSec ( 1 ).
AkSend ==
    /\ akMain = "send"
    /\ \E ok \in BOOLEAN :
         IF ok THEN /\ akInFlight' = Append(akInFlight, loop)
                    /\ akMain' = "hkTest"
               ELSE /\ akMain' = "afterLoop"
                    /\ UNCHANGED akInFlight
    /\ UNCHANGED <<numMsgsToSend, loop, akGotCtlC, akMsg, akLive, akFreedBy, next_p,
                   msgMemoryListHead_p, msgMemoryListTail_p>>
    /\ UNCHANGED akCbVars
    /\ UNCHANGED akOthers

\* a housekeeping loop that frees nothing
AkHousekeepingCondNever == FALSE

\* a housekeeping loop that does not look at isAcked
AkHousekeepingCondAny == msgMemoryListHead_p # NULL

\* while ( ( msgMemoryListHead_p != NULL ) && msgMemoryListHead_p->isAcked )
AkHousekeepingCond == msgMemoryListHead_p # NULL /\ isAcked[msgMemoryListHead_p]

\* msgMemoryItem_p = head; head = head->next_p; if NULL, tail = NULL;
\* solClient_msg_free ( &( msgMemoryItem_p->msg_p ) ); free ( msgMemoryItem_p )
AkFreeHead(who) ==
    LET item == msgMemoryListHead_p
    IN  /\ msgMemoryListHead_p' = next_p[item]
        /\ msgMemoryListTail_p' = IF next_p[item] = NULL THEN NULL
                                  ELSE msgMemoryListTail_p
        /\ akMsg' = [akMsg EXCEPT ![item] = IF @ = "alloc" THEN "freed" ELSE "freedTwice"]
        /\ akLive' = akLive \ {item}
        /\ akFreedBy' = [akFreedBy EXCEPT ![item] = who]

\* the housekeeping pass of the publish loop
AkHousekeeping ==
    /\ akMain = "hkTest"
    /\ IF AkHousekeepingCond
         THEN /\ AkFreeHead("housekeeping")
              /\ UNCHANGED <<akMain, loop>>
         ELSE /\ akMain' = "loopTest"
              /\ loop' = loop + 1
              /\ UNCHANGED <<akMsg, akLive, akFreedBy, msgMemoryListHead_p,
                             msgMemoryListTail_p>>
    /\ UNCHANGED <<numMsgsToSend, akGotCtlC, next_p, akInFlight>>
    /\ UNCHANGED akCbVars
    /\ UNCHANGED akOthers

\* if ( gotCtlC ) ... else sleepInSec ( 1 )
AkAfterLoop ==
    /\ akMain = "afterLoop"
    /\ akMain' = "sessionConnected"
    /\ UNCHANGED <<numMsgsToSend, loop, akGotCtlC, akMsg, akLive, akFreedBy, next_p,
                   msgMemoryListHead_p, msgMemoryListTail_p, akInFlight>>
    /\ UNCHANGED akCbVars
    /\ UNCHANGED akOthers

\* sessionConnected: solClient_session_disconnect.  The call returns when the
\* context thread is out of the session's callback; no event of the session is
\* dispatched afterwards.
AkDisconnect ==
    /\ akMain = "sessionConnected"
    /\ akCb = "idle"
    /\ akInFlight' = <<>>
    /\ akEvents' = <<>>
    /\ akMain' = "cleanup"
    /\ UNCHANGED <<numMsgsToSend, loop, akGotCtlC, akMsg, akLive, akFreedBy, next_p,
                   msgMemoryListHead_p, msgMemoryListTail_p, isAcked, isAccepted,
                   akOther, akCb, akCbEv, akHandled, akUseAfterFree>>
    /\ UNCHANGED akOthers

\* a cleanup that goes to solClient_cleanup without walking the list
AkCleanupNoWalk ==
    /\ akMain = "cleanup"
    /\ akMain' = "done"
    /\ UNCHANGED <<akMsg, akLive, akFreedBy, msgMemoryListHead_p,
                   msgMemoryListTail_p>>
    /\ UNCHANGED <<numMsgsToSend, loop, akGotCtlC, next_p, akInFlight>>
    /\ UNCHANGED akCbVars
    /\ UNCHANGED akOthers

\* cleanup: while ( msgMemoryListHead_p != NULL ) free the head; then
\* solClient_cleanup
AkCleanup ==
    /\ akMain = "cleanup"
    /\ IF msgMemoryListHead_p # NULL
         THEN /\ AkFreeHead("cleanup")
              /\ UNCHANGED akMain
         ELSE /\ akMain' = "done"
              /\ UNCHANGED <<akMsg, akLive, akFreedBy, msgMemoryListHead_p,
                             msgMemoryListTail_p>>
    /\ UNCHANGED <<numMsgsToSend, loop, akGotCtlC, next_p, akInFlight>>
    /\ UNCHANGED akCbVars
    /\ UNCHANGED akOthers

\* the signal handler sets gotCtlC
AkCtlC ==
    /\ ~akGotCtlC
    /\ akMain \notin {"done", "cleanup"}
    /\ akGotCtlC' = TRUE
    /\ UNCHANGED <<akMain, numMsgsToSend, loop, akMsg, akLive, akFreedBy, next_p,
                   msgMemoryListHead_p, msgMemoryListTail_p, akInFlight>>
    /\ UNCHANGED akCbVars
    /\ UNCHANGED akOthers

\* The broker answers the oldest outstanding Guaranteed message: it accepts it
\* or rejects it, and the library raises the event with the message's
\* correlation pointer.
AkBrokerRespond ==
    /\ akInFlight # <<>>
    /\ \E type \in {"ACKNOWLEDGEMENT", "REJECTED_MSG_ERROR"} :
         akEvents' = Append(akEvents, [type |-> type, corr |-> Head(akInFlight)])
    /\ akInFlight' = Tail(akInFlight)
    /\ UNCHANGED <<akMain, numMsgsToSend, loop, akGotCtlC, akMsg, akLive, akFreedBy,
                   next_p, msgMemoryListHead_p, msgMemoryListTail_p, isAcked,
                   isAccepted, akOther, akCb, akCbEv, akHandled, akUseAfterFree>>
    /\ UNCHANGED akOthers

\* the session raises an event of another type; it carries no correlation
\* pointer
AkOtherEvent ==
    /\ akMain \notin {"cleanup", "done"}
    /\ akOther < MaxOtherEvents
    /\ \E type \in AkOtherTypes :
         akEvents' = Append(akEvents, [type |-> type, corr |-> NULL])
    /\ akOther' = akOther + 1
    /\ UNCHANGED <<akMain, numMsgsToSend, loop, akGotCtlC, akMsg, akLive, akFreedBy,
                   next_p, msgMemoryListHead_p, msgMemoryListTail_p, akInFlight,
                   isAcked, isAccepted, akCb, akCbEv, akHandled, akUseAfterFree>>
    /\ UNCHANGED akOthers

\* a callback that marks every answered message accepted
AkAcceptedValueAlways(type) == TRUE

\* the value adPubAck_eventCallback stores in isAccepted for an event type
AkAcceptedValue(type) == type = "ACKNOWLEDGEMENT"

\* adPubAck_eventCallback, up to and including correlationInfo->isAcked = TRUE
\* for an acknowledgement or a rejection; the other cases only log
AkCbFirst ==
    /\ akCb = "idle"
    /\ akEvents # <<>>
    /\ LET e == Head(akEvents)
       IN  IF e.type \in {"ACKNOWLEDGEMENT", "REJECTED_MSG_ERROR"}
             THEN /\ IF e.corr \in akLive
                       THEN /\ isAcked' = [isAcked EXCEPT ![e.corr] = TRUE]
                            /\ UNCHANGED akUseAfterFree
                       ELSE /\ akUseAfterFree' = TRUE
                            /\ UNCHANGED isAcked
                  /\ akCb' = "isAccepted"
                  /\ akCbEv' = e
             ELSE UNCHANGED <<isAcked, akUseAfterFree, akCb, akCbEv>>
    /\ akEvents' = Tail(akEvents)
    /\ UNCHANGED <<isAccepted, akOther, akHandled>>
    /\ UNCHANGED <<numMsgsToSend, akGotCtlC>>
    /\ UNCHANGED akMainVars
    /\ UNCHANGED akOthers

\* adPubAck_eventCallback: correlationInfo->isAccepted = TRUE or FALSE, break.
\* The store goes where the entry was, freed or not.
AkCbSecond ==
    /\ akCb = "isAccepted"
    /\ IF akCbEv.corr \in akLive
         THEN /\ isAccepted' = [isAccepted EXCEPT ![akCbEv.corr] = AkAcceptedValue(akCbEv.type)]
              /\ UNCHANGED akUseAfterFree
         ELSE /\ akUseAfterFree' = TRUE
              /\ UNCHANGED isAccepted
    /\ akHandled' = [akHandled EXCEPT ![akCbEv.corr] = akCbEv.type]
    /\ akCb' = "idle"
    /\ akCbEv' = AkNoEvent
    /\ UNCHANGED <<isAcked, akEvents, akOther>>
    /\ UNCHANGED <<numMsgsToSend, akGotCtlC>>
    /\ UNCHANGED akMainVars
    /\ UNCHANGED akOthers

AkNext ==
    \/ AkLoopTest
    \/ AkAlloc
    \/ AkBuild
    \/ AkCorrelate
    \/ AkSetTag
    \/ AkSend
    \/ AkHousekeeping
    \/ AkAfterLoop
    \/ AkDisconnect
    \/ AkCleanup
    \/ AkCtlC
    \/ AkBrokerRespond
    \/ AkOtherEvent
    \/ AkCbFirst
    \/ AkCbSecond

InitAK == AkInit /\ FcIdle /\ AfIdle /\ TtIdle /\ PxIdle /\ NlIdle /\ TdIdle /\ TxIdle /\ MrIdle /\ CrIdle /\ RpIdle /\ PtIdle /\ CnIdle /\ RqIdle /\ RlIdle /\ QpIdle /\ PmIdle /\ PuIdle

SpecAK == InitAK /\ [][AkNext]_vars

\* positions of main() inside the publish loop
AkLoopPcs == {"loopTest", "alloc", "build", "correlate", "setTag", "send", "hkTest"}

\* the callback is between its two stores for entry i
AkMidCallback(i) == akCb = "isAccepted" /\ akCbEv.corr = i

(***************************************************************************)
(* C4: in adPubAck the housekeeping pass of the publish loop frees a       *)
(* correlation entry and its message only when the entry's isAcked is      *)
(* TRUE; an entry whose isAcked is still FALSE, that is, whose event the   *)
(* callback has not processed, is freed only by the cleanup loop after the *)
(* publish loop has ended.                                                 *)
(***************************************************************************)
C4_FreedOnlyAfterAck ==
    [][\A i \in AkIds :
          (i \in akLive /\ i \notin akLive') =>
              /\ akMain \in AkLoopPcs => isAcked[i] /\ akMsg'[i] = "freed"
              /\ ~isAcked[i] => akMain = "cleanup"]_vars

\* the housekeeping pass has freed the first entry while the second one,
\* sent and not yet answered, stays in the list
C4_Witness ==
    /\ akMain = "hkTest"
    /\ akFreedBy[0] = "housekeeping"
    /\ akMsg[0] = "freed"
    /\ msgMemoryListHead_p = 1
    /\ 1 \in akLive
    /\ ~isAcked[1]
    /\ akInFlight = <<1>>

(***************************************************************************)
(* C5: once an entry has been handed to the send call the dispatch thread  *)
(* writes only isAcked and isAccepted and the publishing thread only reads *)
(* the flags, links, unlinks and frees; no entry is written by the         *)
(* dispatch thread while or after the publishing thread frees it.          *)
(***************************************************************************)
C5_NoDispatchWriteToFreedEntry ==
    /\ ~akUseAfterFree
    /\ \A i \in AkIds : AkMidCallback(i) => i \in akLive

(***************************************************************************)
(* C6: when adPubAck_eventCallback has returned from an ACKNOWLEDGEMENT    *)
(* event the entry has isAcked = TRUE and isAccepted = TRUE; from a        *)
(* REJECTED_MSG_ERROR event, isAcked = TRUE and isAccepted = FALSE; a      *)
(* session event of any other type modifies no correlation entry.          *)
(***************************************************************************)
C6_CallbackFlags ==
    /\ [](\A i \in akLive :
            /\ akHandled[i] = "ACKNOWLEDGEMENT" => isAcked[i] /\ isAccepted[i]
            /\ akHandled[i] = "REJECTED_MSG_ERROR" => isAcked[i] /\ ~isAccepted[i])
    /\ [][(/\ akCb = "idle"
           /\ akEvents # <<>>
           /\ Head(akEvents).type \in AkOtherTypes
           /\ akEvents' = Tail(akEvents)
           /\ akMain' = akMain)
          => /\ UNCHANGED <<isAcked, isAccepted, next_p, akLive, akMsg>>
             /\ akCb' = "idle"]_vars

\* a rejected entry and an accepted entry, both handled and still in the
\* list, and an event of another type dispatched
C6_Witness ==
    /\ akHandled[0] = "REJECTED_MSG_ERROR"
    /\ akHandled[1] = "ACKNOWLEDGEMENT"
    /\ {0, 1} \subseteq akLive
    /\ isAcked[0] /\ ~isAccepted[0]
    /\ isAcked[1] /\ isAccepted[1]
    /\ akOther = 1
    /\ akEvents = <<>>
    /\ akCb = "idle"

(***************************************************************************)
(* C7: every message buffer allocated for publishing is released exactly   *)
(* once, on every path including the error paths: when main() has          *)
(* finished no allocated buffer is left unreleased and none was released   *)
(* twice.                                                                  *)
(***************************************************************************)
C7_EveryMsgFreedOnce ==
    /\ \A i \in AkIds : akMsg[i] # "freedTwice"
    /\ akMain = "done" => \A i \in AkIds : akMsg[i] \in {"none", "freed"}

(***************************************************************************)
(* messageTTLAndDeadMessageQueue.c                                         *)
(***************************************************************************)
\* publishMessageWithTTL ( session_p, 3000, ... ): the TTL in milliseconds
TtlMs == 3000
\* sleepInSec ( 5 )
SleepSec == 5
\* while ( ( flowRxMsgCounter != ... ) && ( i < 8 ) )
WaitRounds == 8

\* a batch in which both TTL messages are DMQ eligible
TtBatchBothEligible ==
    << [ttl |-> 0, dmqe |-> FALSE], [ttl |-> 0, dmqe |-> FALSE],
       [ttl |-> 0, dmqe |-> FALSE], [ttl |-> TtlMs, dmqe |-> TRUE],
       [ttl |-> TtlMs, dmqe |-> TRUE] >>

\* the five messages main() publishes, twice: three with TTL=0, one with
\* TTL=3000 and DMQ=FALSE, one with TTL=3000 and DMQ=TRUE
TtBatch ==
    << [ttl |-> 0, dmqe |-> FALSE], [ttl |-> 0, dmqe |-> FALSE],
       [ttl |-> 0, dmqe |-> FALSE], [ttl |-> TtlMs, dmqe |-> FALSE],
       [ttl |-> TtlMs, dmqe |-> TRUE] >>

\* message k of batch b
TtMsg(b, k) == [b |-> b, k |-> k, ttl |-> TtBatch[k].ttl, dmqe |-> TtBatch[k].dmqe]

TtInit ==
    /\ ttMain = "publish1"
    /\ ttI = 0
    /\ ttNow = 0
    /\ ttSleepStart = 0
    /\ ttSent = {}
    /\ ttWire = <<>>
    /\ ttQueue = <<>>
    /\ ttDmq = <<>>
    /\ ttExpired = {}
    /\ ttFlowTransit = <<>>
    /\ ttDmqTransit = <<>>
    /\ ttFlowBound = FALSE
    /\ ttDmqBound = FALSE
    /\ ttBinds = 0
    /\ ttStopped = FALSE
    /\ flowRxMsgCounter = 0
    /\ dmqRxMsgCounter = 0
    /\ ttFlowLog = <<>>

ttApplVars == <<ttQueue, ttDmq, ttExpired>>
ttTransitVars == <<ttFlowTransit, ttDmqTransit>>
ttFlowVars == <<ttFlowBound, ttDmqBound, ttBinds, ttStopped>>
ttCounters == <<flowRxMsgCounter, dmqRxMsgCounter, ttFlowLog>>

\* publishMessageWithTTL: the message is sent, or an error is logged and the
\* message is not sent; it is freed either way
publishMessageWithTTL(b, k) ==
    \E ok \in BOOLEAN :
        IF ok THEN /\ ttWire' = Append(ttWire, TtMsg(b, k))
                   /\ ttSent' = ttSent \cup {<<b, k>>}
              ELSE UNCHANGED <<ttWire, ttSent>>

\* the five publishMessageWithTTL calls of a batch, one per step
TtPublishBatch(pc, b, next) ==
    /\ ttMain = pc
    /\ publishMessageWithTTL(b, ttI + 1)
    /\ IF ttI + 1 < Len(TtBatch)
         THEN ttI' = ttI + 1 /\ UNCHANGED ttMain
         ELSE ttI' = 0 /\ ttMain' = next
    /\ UNCHANGED <<ttNow, ttApplVars, ttTransitVars, ttFlowVars, ttCounters>>

\* the first five messages, published before the flows are bound
TtPublish1 ==
    /\ TtPublishBatch("publish1", 1, "bindFlow")
    /\ UNCHANGED ttSleepStart
    /\ UNCHANGED ttOthers

\* flowRxMsgCounter = 0; solClient_session_createFlow to COMMON_TESTQ, blocking
TtBindFlow ==
    /\ ttMain = "bindFlow"
    /\ flowRxMsgCounter' = 0
    /\ \E ok \in BOOLEAN :
         IF ok THEN /\ ttFlowBound' = TRUE
                    /\ ttBinds' = ttBinds + 1
                    /\ ttMain' = "bindDmq"
               ELSE /\ ttMain' = "sessionConnected"
                    /\ UNCHANGED <<ttFlowBound, ttBinds>>
    /\ UNCHANGED <<ttI, ttNow, ttSleepStart, ttSent, ttWire, ttApplVars, ttTransitVars,
                   ttDmqBound, ttStopped, dmqRxMsgCounter, ttFlowLog>>
    /\ UNCHANGED ttOthers

\* dmqRxMsgCounter = 0; solClient_session_createFlow to COMMON_DMQ_NAME; i = 0
TtBindDmq ==
    /\ ttMain = "bindDmq"
    /\ dmqRxMsgCounter' = 0
    /\ ttI' = 0
    /\ \E ok \in BOOLEAN :
         IF ok THEN /\ ttDmqBound' = TRUE
                    /\ ttMain' = "wait1"
               ELSE /\ ttMain' = "sessionConnected"
                    /\ UNCHANGED ttDmqBound
    /\ UNCHANGED <<ttNow, ttSleepStart, ttSent, ttWire, ttApplVars, ttTransitVars,
                   ttFlowBound, ttBinds, ttStopped, flowRxMsgCounter, ttFlowLog>>
    /\ UNCHANGED ttOthers

\* while ( ( flowRxMsgCounter != want ) && ( i < 8 ) ) { sleepInUs ( 250 ); i++; }
TtWait(pc, want, next) ==
    /\ ttMain = pc
    /\ IF flowRxMsgCounter # want /\ ttI < WaitRounds
         THEN ttI' = ttI + 1 /\ UNCHANGED ttMain
         ELSE ttMain' = next /\ UNCHANGED ttI
    /\ UNCHANGED <<ttNow, ttSleepStart, ttSent, ttWire, ttApplVars, ttTransitVars,
                   ttFlowVars, ttCounters>>

TtWait1 == TtWait("wait1", 5, "check1") /\ UNCHANGED ttOthers

\* main() goes on whatever was received
TtAllReceivedUnchecked == TRUE

\* if ( flowRxMsgCounter != 5 ) goto sessionConnected
TtAllReceived == flowRxMsgCounter = 5

\* the two checks that follow the first wait
TtCheck1 ==
    /\ ttMain = "check1"
    /\ ttMain' = IF TtAllReceived /\ dmqRxMsgCounter = 0 THEN "stop"
                 ELSE "sessionConnected"
    /\ UNCHANGED <<ttI, ttNow, ttSleepStart, ttSent, ttWire, ttApplVars, ttTransitVars,
                   ttFlowVars, ttCounters>>
    /\ UNCHANGED ttOthers

\* solClient_flow_stop ( flow_p ): the flow's window to the appliance is closed
TtFlowStop ==
    /\ ttMain = "stop"
    /\ \E ok \in BOOLEAN :
         IF ok THEN ttStopped' = TRUE /\ ttMain' = "reset"
               ELSE ttMain' = "sessionConnected" /\ UNCHANGED ttStopped
    /\ UNCHANGED <<ttI, ttNow, ttSleepStart, ttSent, ttWire, ttApplVars, ttTransitVars,
                   ttFlowBound, ttDmqBound, ttBinds, ttCounters>>
    /\ UNCHANGED ttOthers

\* flowRxMsgCounter = 0
TtReset ==
    /\ ttMain = "reset"
    /\ flowRxMsgCounter' = 0
    /\ ttI' = 0
    /\ ttMain' = "publish2"
    /\ UNCHANGED <<ttNow, ttSleepStart, ttSent, ttWire, ttApplVars, ttTransitVars,
                   ttFlowVars, dmqRxMsgCounter, ttFlowLog>>
    /\ UNCHANGED ttOthers

\* the five messages again; then sleepInSec ( 5 ) is entered
TtPublish2 ==
    /\ TtPublishBatch("publish2", 2, "sleep")
    /\ ttSleepStart' = ttNow
    /\ UNCHANGED ttOthers

\* sleepInSec ( 5 ) returns, not before five seconds have passed
TtSleep ==
    /\ ttMain = "sleep"
    /\ ttNow >= ttSleepStart + SleepSec
    /\ ttMain' = "check2"
    /\ UNCHANGED <<ttI, ttNow, ttSleepStart, ttSent, ttWire, ttApplVars, ttTransitVars,
                   ttFlowVars, ttCounters>>
    /\ UNCHANGED ttOthers

\* if ( dmqRxMsgCounter != 1 ) goto sessionConnected
TtCheck2 ==
    /\ ttMain = "check2"
    /\ ttMain' = IF dmqRxMsgCounter = 1 THEN "start" ELSE "sessionConnected"
    /\ UNCHANGED <<ttI, ttNow, ttSleepStart, ttSent, ttWire, ttApplVars, ttTransitVars,
                   ttFlowVars, ttCounters>>
    /\ UNCHANGED ttOthers

\* solClient_flow_start ( flow_p ): the window is opened again; i = 0
TtFlowStart ==
    /\ ttMain = "start"
    /\ ttI' = 0
    /\ \E ok \in BOOLEAN :
         IF ok THEN ttStopped' = FALSE /\ ttMain' = "wait2"
               ELSE ttMain' = "sessionConnected" /\ UNCHANGED ttStopped
    /\ UNCHANGED <<ttNow, ttSleepStart, ttSent, ttWire, ttApplVars, ttTransitVars,
                   ttFlowBound, ttDmqBound, ttBinds, ttCounters>>
    /\ UNCHANGED ttOthers

TtWait2 == TtWait("wait2", 3, "check3") /\ UNCHANGED ttOthers

\* if ( flowRxMsgCounter != 3 ) goto sessionConnected; else the success line
TtCheck3 ==
    /\ ttMain = "check3"
    /\ ttMain' = "sessionConnected"
    /\ UNCHANGED <<ttI, ttNow, ttSleepStart, ttSent, ttWire, ttApplVars, ttTransitVars,
                   ttFlowVars, ttCounters>>
    /\ UNCHANGED ttOthers

\* sessionConnected: solClient_flow_destroy of each flow that was created
TtDestroyFlows ==
    /\ ttMain = "sessionConnected"
    /\ ttFlowBound' = FALSE
    /\ ttDmqBound' = FALSE
    /\ ttFlowTransit' = <<>>
    /\ ttDmqTransit' = <<>>
    /\ ttMain' = "deleteQueues"
    /\ UNCHANGED <<ttI, ttNow, ttSleepStart, ttSent, ttWire, ttApplVars, ttBinds,
                   ttStopped, ttCounters>>
    /\ UNCHANGED ttOthers

\* common_deleteQueue of both queues, disconnect, cleanup
TtDeleteQueues ==
    /\ ttMain = "deleteQueues"
    /\ ttQueue' = <<>>
    /\ ttDmq' = <<>>
    /\ ttWire' = <<>>
    /\ ttMain' = "done"
    /\ UNCHANGED <<ttI, ttNow, ttSleepStart, ttSent, ttExpired, ttTransitVars,
                   ttFlowVars, ttCounters>>
    /\ UNCHANGED ttOthers

\* when a message spooled now stops being deliverable; 0 for a message
\* without TTL
TtExpiry(msg) == IF msg.ttl > 0 THEN ttNow * 1000 + msg.ttl ELSE 0

\* the appliance receives a published message and spools it to COMMON_TESTQ,
\* which subscribes to the topic
TtSpool ==
    /\ ttMain # "done"
    /\ ttWire # <<>>
    /\ ttQueue' = Append(ttQueue, [msg |-> Head(ttWire), exp |-> TtExpiry(Head(ttWire))])
    /\ ttWire' = Tail(ttWire)
    /\ UNCHANGED <<ttMain, ttI, ttNow, ttSleepStart, ttSent, ttDmq, ttExpired,
                   ttTransitVars, ttFlowVars, ttCounters>>
    /\ UNCHANGED ttOthers

\* the appliance sends the oldest message of COMMON_TESTQ down the flow, if
\* the flow's window is open
TtDeliver ==
    /\ ttFlowBound
    /\ ~ttStopped
    /\ ttQueue # <<>>
    /\ ttFlowTransit' = Append(ttFlowTransit, Head(ttQueue).msg)
    /\ ttQueue' = Tail(ttQueue)
    /\ UNCHANGED <<ttMain, ttI, ttNow, ttSleepStart, ttSent, ttWire, ttDmq, ttExpired,
                   ttDmqTransit, ttFlowVars, ttCounters>>
    /\ UNCHANGED ttOthers

\* the appliance sends the oldest message of the DMQ down the DMQ flow
TtDmqDeliver ==
    /\ ttDmqBound
    /\ ttDmq # <<>>
    /\ ttDmqTransit' = Append(ttDmqTransit, Head(ttDmq))
    /\ ttDmq' = Tail(ttDmq)
    /\ UNCHANGED <<ttMain, ttI, ttNow, ttSleepStart, ttSent, ttWire, ttQueue, ttExpired,
                   ttFlowTransit, ttFlowVars, ttCounters>>
    /\ UNCHANGED ttOthers

\* common_flowMessageReceiveCallback with user_p = &flowRxMsgCounter
TtFlowRx ==
    /\ ttFlowBound
    /\ ttFlowTransit # <<>>
    /\ flowRxMsgCounter' = flowRxMsgCounter + 1
    /\ ttFlowLog' = Append(ttFlowLog, Head(ttFlowTransit))
    /\ ttFlowTransit' = Tail(ttFlowTransit)
    /\ UNCHANGED <<ttMain, ttI, ttNow, ttSleepStart, ttSent, ttWire, ttApplVars,
                   ttDmqTransit, ttFlowVars, dmqRxMsgCounter>>
    /\ UNCHANGED ttOthers

\* common_flowMessageReceiveCallback with user_p = &dmqRxMsgCounter
TtDmqRx ==
    /\ ttDmqBound
    /\ ttDmqTransit # <<>>
    /\ dmqRxMsgCounter' = dmqRxMsgCounter + 1
    /\ ttDmqTransit' = Tail(ttDmqTransit)
    /\ UNCHANGED <<ttMain, ttI, ttNow, ttSleepStart, ttSent, ttWire, ttApplVars,
                   ttFlowTransit, ttFlowVars, flowRxMsgCounter, ttFlowLog>>
    /\ UNCHANGED ttOthers

\* the spooled message e is past its TTL at time t (seconds)
TtDead(e, t) == e.exp # 0 /\ e.exp <= t * 1000

RECURSIVE TtKeep(_, _)
\* the messages of q that are not past their TTL at time t
TtKeep(q, t) ==
    IF q = <<>> THEN <<>>
    ELSE IF TtDead(Head(q), t) THEN TtKeep(Tail(q), t)
    ELSE <<Head(q)>> \o TtKeep(Tail(q), t)

RECURSIVE TtToDmq(_, _)
\* the messages of q past their TTL at time t that are DMQ eligible
TtToDmq(q, t) ==
    IF q = <<>> THEN <<>>
    ELSE IF TtDead(Head(q), t) /\ Head(q).msg.dmqe
           THEN <<Head(q).msg>> \o TtToDmq(Tail(q), t)
    ELSE TtToDmq(Tail(q), t)

\* A second passes.  The appliance takes the messages past their TTL off
\* COMMON_TESTQ: a DMQ eligible one moves to the DMQ, the others are discarded.
TtTick ==
    /\ ttMain # "done"
    /\ ttNow < MaxTime
    /\ ttNow' = ttNow + 1
    /\ ttQueue' = TtKeep(ttQueue, ttNow + 1)
    /\ ttDmq' = ttDmq \o TtToDmq(ttQueue, ttNow + 1)
    /\ ttExpired' = ttExpired \cup
          {<<ttQueue[j].msg.b, ttQueue[j].msg.k>> :
               j \in {n \in 1..Len(ttQueue) : TtDead(ttQueue[n], ttNow + 1)}}
    /\ UNCHANGED <<ttMain, ttI, ttSleepStart, ttSent, ttWire, ttTransitVars,
                   ttFlowVars, ttCounters>>
    /\ UNCHANGED ttOthers

TtNext ==
    \/ TtPublish1
    \/ TtBindFlow
    \/ TtBindDmq
    \/ TtWait1
    \/ TtCheck1
    \/ TtFlowStop
    \/ TtReset
    \/ TtPublish2
    \/ TtSleep
    \/ TtCheck2
    \/ TtFlowStart
    \/ TtWait2
    \/ TtCheck3
    \/ TtDestroyFlows
    \/ TtDeleteQueues
    \/ TtSpool
    \/ TtDeliver
    \/ TtDmqDeliver
    \/ TtFlowRx
    \/ TtDmqRx
    \/ TtTick

InitTT == TtInit /\ FcIdle /\ AfIdle /\ AkIdle /\ PxIdle /\ NlIdle /\ TdIdle /\ TxIdle /\ MrIdle /\ CrIdle /\ RpIdle /\ PtIdle /\ CnIdle /\ RqIdle /\ RlIdle /\ QpIdle /\ PmIdle /\ PuIdle

SpecTT == InitTT /\ [][TtNext]_vars

\* the messages of batch b published with a TTL
TtWithTtl(b) == {<<b, k>> : k \in {j \in 1..Len(TtBatch) : TtBatch[j].ttl > 0}}

\* the messages of the second batch without TTL that were sent, in order
TtNoTtlSent ==
    SelectSeq([k \in 1..Len(TtBatch) |-> TtMsg(2, k)],
              LAMBDA m : m.ttl = 0 /\ <<2, m.k>> \in ttSent)

\* the messages spooled on COMMON_TESTQ, oldest first
TtQueued == [j \in 1..Len(ttQueue) |-> ttQueue[j].msg]

(***************************************************************************)
(* C8: in messageTTLAndDeadMessageQueue, while the queue flow is stopped   *)
(* and after its counter was reset, the queue flow's callback has counted  *)
(* nothing and received nothing, the DMQ flow has counted at most one      *)
(* message, and once both TTL=3000 messages of the second batch were       *)
(* published and have expired and the dead message has reached the DMQ     *)
(* flow's callback, the DMQ flow has counted exactly one.                  *)
(***************************************************************************)
C8_OneOnDmqNoneElsewhere ==
    ttMain \in {"publish2", "sleep", "check2", "start"} =>
        /\ flowRxMsgCounter = 0
        /\ Len(ttFlowLog) = Len(TtBatch)
        /\ ttFlowTransit = <<>>
        /\ dmqRxMsgCounter <= 1
        /\ (/\ TtWithTtl(2) \subseteq ttSent
            /\ TtWithTtl(2) \subseteq ttExpired
            /\ ttDmq = <<>>
            /\ ttDmqTransit = <<>>) => dmqRxMsgCounter = 1

\* sleepInSec ( 5 ) is over, both TTL messages have expired, the three others
\* wait on the queue, one message was counted on the DMQ flow
C8_Witness ==
    /\ ttMain = "check2"
    /\ ttStopped
    /\ TtWithTtl(2) \subseteq ttExpired
    /\ Len(ttQueue) = 3
    /\ dmqRxMsgCounter = 1
    /\ flowRxMsgCounter = 0
    /\ ttNow >= ttSleepStart + SleepSec

(***************************************************************************)
(* C9: solClient_flow_stop and solClient_flow_start leave the flow bound   *)
(* (no rebinding); while the flow is stopped its receive callback is not   *)
(* called; after the start the same flow receives exactly the messages     *)
(* still on the queue, the messages without TTL of the second batch: what  *)
(* was received since, what is in transit and what is still spooled make   *)
(* up exactly those messages, so three are counted once all have arrived.  *)
(***************************************************************************)
C9_StopStartPauseResume ==
    /\ [][/\ ttStopped => ttFlowLog' = ttFlowLog
          /\ ttStopped' # ttStopped =>
                ttFlowBound /\ ttFlowBound' /\ ttBinds' = ttBinds]_vars
    /\ [](ttMain \in {"wait2", "check3"} =>
            /\ ttBinds = 1
            /\ ttFlowBound
            /\ Len(ttFlowLog) = Len(TtBatch) + flowRxMsgCounter
            /\ SubSeq(ttFlowLog, Len(TtBatch) + 1, Len(ttFlowLog))
                  \o ttFlowTransit \o TtQueued = TtNoTtlSent
            /\ flowRxMsgCounter <= 3
            /\ (/\ Len(TtNoTtlSent) = 3
                /\ ttFlowTransit = <<>>
                /\ ttQueue = <<>>) => flowRxMsgCounter = 3)

\* the restarted flow has counted the three messages without TTL
C9_Witness ==
    /\ ttMain = "check3"
    /\ ttBinds = 1
    /\ ttFlowBound
    /\ ~ttStopped
    /\ flowRxMsgCounter = 3
    /\ Len(ttFlowLog) = 8
    /\ TtWithTtl(2) \subseteq ttExpired
    /\ dmqRxMsgCounter = 1

(***************************************************************************)
(* Command line and exit status                                            *)
(***************************************************************************)
\* the options tried: --cip HOST, --cu USER, --gss, --mn 1, --mn 0 and an
\* option that is not in optstring
PxOptions == {"c", "u", "g", "n1", "n0", "x"}

\* perfTest's PUB_SUB_MODE: absent, the letters main() accepts, another letter
PxModes == {"none", "p", "s", "b", "q"}

RECURSIVE PxArgvs(_)
\* the command lines of at most n options
PxArgvs(n) ==
    IF n = 0 THEN {<<>>}
    ELSE PxArgvs(n - 1) \cup
         {Append(a, o) : a \in {b \in PxArgvs(n - 1) : Len(b) = n - 1}, o \in PxOptions}

\* common_initCommandOptions: the required parameters of both examples are
\* USER_PARAM_MASK
PxRequiredFields(program) == {"USER"}

PxInit ==
    /\ pxProgram \in {"topicDispatch", "perfTest"}
    /\ pxArgv \in PxArgvs(MaxArgs)
    /\ pxMode \in (IF pxProgram = "perfTest" THEN PxModes ELSE {"none"})
    /\ pxMain = "initialize"
    /\ pxParsed = FALSE
    /\ pxOptind = 1
    /\ pxRc = 1
    /\ pxHost = FALSE
    /\ pxUser = FALSE
    /\ pxGSS = FALSE
    /\ pxNumMsgs = 1
    /\ pxStatus = "none"

pxInput == <<pxProgram, pxArgv, pxMode>>
pxOpts == <<pxHost, pxUser, pxGSS, pxNumMsgs>>

\* solClient_initialize: on an error, goto notInitialized (return 0)
PxInitialize ==
    /\ pxMain = "initialize"
    /\ \E ok \in BOOLEAN :
         IF ok THEN pxMain' = "getopt" /\ pxParsed' = TRUE /\ UNCHANGED pxStatus
               ELSE pxMain' = "exited" /\ pxStatus' = 0 /\ UNCHANGED pxParsed
    /\ UNCHANGED <<pxInput, pxOptind, pxRc, pxOpts>>
    /\ UNCHANGED pxOthers

\* one round of while ( ( c = getopt_long ( ... ) ) != -1 ) switch ( c )
PxGetopt ==
    /\ pxMain = "getopt"
    /\ pxOptind <= Len(pxArgv)
    /\ LET c == pxArgv[pxOptind]
       IN  /\ pxHost' = (pxHost \/ c = "c")
           /\ pxUser' = (pxUser \/ c = "u")
           /\ pxGSS' = (pxGSS \/ c = "g")
           /\ pxNumMsgs' = IF c = "n1" THEN 1 ELSE IF c = "n0" THEN 0 ELSE pxNumMsgs
           /\ pxRc' = IF c = "n0" \/ c = "x" THEN 0 ELSE pxRc
    /\ pxOptind' = pxOptind + 1
    /\ UNCHANGED <<pxInput, pxMain, pxParsed, pxStatus>>
    /\ UNCHANGED pxOthers

\* if ( common_parseCommandOptions ( ... ) == 0 ) exit(1)
PxOnParseResult(rc, program) ==
    IF rc = 0 THEN "exit1"
    ELSE IF program = "perfTest" THEN "positional" ELSE "run"

\* the checks of the required parameters after the options, the usage text,
\* return ( rc ); and what main() does with it
PxParseReturn ==
    /\ pxMain = "getopt"
    /\ pxOptind > Len(pxArgv)
    /\ LET rc == IF "USER" \in PxRequiredFields(pxProgram) /\ ~pxUser /\ ~pxGSS
                   THEN 0 ELSE pxRc
           to == PxOnParseResult(rc, pxProgram)
       IN  /\ pxRc' = rc
           /\ IF to = "exit1"
                THEN pxMain' = "exited" /\ pxStatus' = 1
                ELSE pxMain' = to /\ UNCHANGED pxStatus
    /\ UNCHANGED <<pxInput, pxParsed, pxOptind, pxOpts>>
    /\ UNCHANGED pxOthers

\* perfTest: the PUB_SUB_MODE argument; an unknown value prints an error and
\* goes to notInitialized, where main() returns 0
PxPositional ==
    /\ pxMain = "positional"
    /\ IF pxMode \in {"none", "p", "s", "b"}
         THEN pxMain' = "run" /\ UNCHANGED pxStatus
         ELSE pxMain' = "exited" /\ pxStatus' = 0
    /\ UNCHANGED <<pxInput, pxParsed, pxOptind, pxRc, pxOpts>>
    /\ UNCHANGED pxOthers

\* the rest of main(): it completes, or an error is handled and the cleanup
\* labels are run; either way main() ends in return 0
PxRun ==
    /\ pxMain = "run"
    /\ \E outcome \in {"completed", "handledError"} :
         pxMain' = "exited" /\ pxStatus' = 0
    /\ UNCHANGED <<pxInput, pxParsed, pxOptind, pxRc, pxOpts>>
    /\ UNCHANGED pxOthers

PxNext ==
    \/ PxInitialize
    \/ PxGetopt
    \/ PxParseReturn
    \/ PxPositional
    \/ PxRun

InitPX == PxInit /\ FcIdle /\ AfIdle /\ AkIdle /\ TtIdle /\ NlIdle /\ TdIdle /\ TxIdle /\ MrIdle /\ CrIdle /\ RpIdle /\ PtIdle /\ CnIdle /\ RqIdle /\ RlIdle /\ QpIdle /\ PmIdle /\ PuIdle

SpecPX == InitPX /\ [][PxNext]_vars

\* the command line is a usage error: an invalid option or option value, a
\* missing required parameter, or an invalid positional mode argument
PxUsageError ==
    \/ \E i \in 1..Len(pxArgv) : pxArgv[i] \in {"n0", "x"}
    \/ \A i \in 1..Len(pxArgv) : pxArgv[i] \notin {"u", "g"}
    \/ pxMode \notin {"none", "p", "s", "b"}

(***************************************************************************)
(* C11: an example that has come to look at its command line exits with    *)
(* status 1 if and only if the command line is a usage error; every other  *)
(* run that ends exits with status 0.                                      *)
(***************************************************************************)
C11_ExitStatus ==
    pxMain = "exited" =>
        /\ pxStatus \in {0, 1}
        /\ pxParsed => (pxStatus = 1 <=> PxUsageError)
        /\ ~pxParsed => pxStatus = 0

(***************************************************************************)
(* noLocalPubSub.c                                                         *)
(***************************************************************************)
NlSessions == {"A", "B"}

\* nothing has NO_LOCAL enabled
NlNoLocalNowhere == {}

\* what has NO_LOCAL enabled: session B (SOLCLIENT_SESSION_PROP_NO_LOCAL) and
\* the flow on session A (SOLCLIENT_FLOW_PROP_NO_LOCAL); session A has not
NlNoLocal == {"B", "flow"}

\* the four messages main() sends: who publishes, where to
NlPublishes ==
    << [from |-> "A", dest |-> "topic"], [from |-> "B", dest |-> "topic"],
       [from |-> "A", dest |-> "queue"], [from |-> "B", dest |-> "queue"] >>

\* the counters main() expects after each of the four publishes
NlExpected == << <<0, 1>>, <<0, 0>>, <<0, 0>>, <<1, 0>> >>

NlInit ==
    /\ nlMain = "createContext"
    /\ nlConnected = {}
    /\ nlEverConnected = {}
    /\ nlDisconnectCalled = {}
    /\ nlSubscribed = {}
    /\ nlQueue = NlNoQueue
    /\ nlProvisioned = FALSE
    /\ nlDeleteCalled = FALSE
    /\ nlFlowBound = FALSE
    /\ nlMsgAlloc = FALSE
    /\ nlDest = "none"
    /\ nlSends = 0
    /\ nlWire = <<>>
    /\ nlTransit = [t \in {"A", "B", "flow"} |-> <<>>]
    /\ nlRejected = {}
    /\ nlCb = [who |-> "none", loaded |-> 0]
    /\ msgCounterA = 0
    /\ msgCounterB = 0
    /\ nlInvoked = [c \in NlSessions |-> 0]
    /\ nlInvokedEver = [c \in NlSessions |-> 0]
    /\ nlLog = {}
    /\ nlCleanupCalled = FALSE

nlSessVars == <<nlConnected, nlEverConnected, nlDisconnectCalled, nlSubscribed>>
nlEndpointVars == <<nlQueue, nlProvisioned, nlDeleteCalled, nlFlowBound>>
nlMsgVars == <<nlMsgAlloc, nlDest, nlSends, nlWire>>
nlRxVars == <<nlTransit, nlRejected, nlCb, nlInvokedEver, nlLog>>
nlCounters == <<msgCounterA, msgCounterB, nlInvoked>>

\* a call of main() that changes nothing the model tracks: on success main()
\* goes on, on an error it jumps to a cleanup label
NlCall(pc, next, onError) ==
    /\ nlMain = pc
    /\ \E ok \in BOOLEAN : nlMain' = IF ok THEN next ELSE onError
    /\ UNCHANGED <<nlSessVars, nlEndpointVars, nlMsgVars, nlRxVars, nlCounters,
                   nlCleanupCalled>>

\* solClient_context_create; on an error, goto cleanup
NlCreateContext == NlCall("createContext", "connectA", "cleanup") /\ UNCHANGED nlOthers

\* common_createAndConnectSession of session A; on an error, goto cleanup
NlConnectA ==
    /\ nlMain = "connectA"
    /\ \E ok \in BOOLEAN :
         IF ok THEN /\ nlConnected' = nlConnected \cup {"A"}
                    /\ nlEverConnected' = nlEverConnected \cup {"A"}
                    /\ nlMain' = "isCapable"
               ELSE /\ nlMain' = "cleanup"
                    /\ UNCHANGED <<nlConnected, nlEverConnected>>
    /\ UNCHANGED <<nlDisconnectCalled, nlSubscribed, nlEndpointVars, nlMsgVars, nlRxVars,
                   nlCounters, nlCleanupCalled>>
    /\ UNCHANGED nlOthers

\* if ( !solClient_session_isCapable ( ... NO_LOCAL ) ) goto cleanup
NlIsCapable == NlCall("isCapable", "createB", "cleanup") /\ UNCHANGED nlOthers

\* solClient_session_create of session B; on an error, goto cleanup
NlCreateB == NlCall("createB", "connectB", "cleanup") /\ UNCHANGED nlOthers

\* solClient_session_connect ( sessionB_p ); on an error, goto cleanup
NlConnectB ==
    /\ nlMain = "connectB"
    /\ \E ok \in BOOLEAN :
         IF ok THEN /\ nlConnected' = nlConnected \cup {"B"}
                    /\ nlEverConnected' = nlEverConnected \cup {"B"}
                    /\ nlMain' = "subscribeB"
               ELSE /\ nlMain' = "cleanup"
                    /\ UNCHANGED <<nlConnected, nlEverConnected>>
    /\ UNCHANGED <<nlDisconnectCalled, nlSubscribed, nlEndpointVars, nlMsgVars, nlRxVars,
                   nlCounters, nlCleanupCalled>>
    /\ UNCHANGED nlOthers

\* solClient_session_topicSubscribeExt ( sessionB_p, WAITFORCONFIRM, ... )
NlSubscribeB ==
    /\ nlMain = "subscribeB"
    /\ \E ok \in BOOLEAN :
         IF ok THEN nlSubscribed' = nlSubscribed \cup {"B"} /\ nlMain' = "createQueue"
               ELSE nlMain' = "sessionConnected" /\ UNCHANGED nlSubscribed
    /\ UNCHANGED <<nlConnected, nlEverConnected, nlDisconnectCalled, nlEndpointVars,
                   nlMsgVars, nlRxVars, nlCounters, nlCleanupCalled>>
    /\ UNCHANGED nlOthers

\* common_createQueue ( sessionA_p, COMMON_TESTQ )
NlCreateQueue ==
    /\ nlMain = "createQueue"
    /\ \E ok \in BOOLEAN :
         IF ok THEN /\ nlQueue' = [exists |-> TRUE, msgs |-> <<>>]
                    /\ nlProvisioned' = TRUE
                    /\ nlMain' = "createFlow"
               ELSE /\ nlMain' = "sessionConnected"
                    /\ UNCHANGED <<nlQueue, nlProvisioned>>
    /\ UNCHANGED <<nlSessVars, nlDeleteCalled, nlFlowBound, nlMsgVars, nlRxVars, nlCounters,
                   nlCleanupCalled>>
    /\ UNCHANGED nlOthers

\* solClient_session_createFlow on session A, blocking, NO_LOCAL enabled
NlCreateFlow ==
    /\ nlMain = "createFlow"
    /\ \E ok \in BOOLEAN :
         IF ok THEN nlFlowBound' = TRUE /\ nlMain' = "msgAlloc"
               ELSE nlMain' = "sessionConnected" /\ UNCHANGED nlFlowBound
    /\ UNCHANGED <<nlSessVars, nlQueue, nlProvisioned, nlDeleteCalled, nlMsgVars, nlRxVars,
                   nlCounters, nlCleanupCalled>>
    /\ UNCHANGED nlOthers

\* solClient_msg_alloc ( &msg_p ); on an error, goto sessionConnected
NlMsgAlloc ==
    /\ nlMain = "msgAlloc"
    /\ \E ok \in BOOLEAN :
         IF ok THEN nlMsgAlloc' = TRUE /\ nlMain' = "build"
               ELSE nlMain' = "sessionConnected" /\ UNCHANGED nlMsgAlloc
    /\ UNCHANGED <<nlSessVars, nlEndpointVars, nlDest, nlSends, nlWire, nlRxVars,
                   nlCounters, nlCleanupCalled>>
    /\ UNCHANGED nlOthers

\* solClient_msg_setDeliveryMode, solClient_msg_setDestination (and the
\* attachment, the first time): before the first and the third send
NlBuild ==
    /\ nlMain = "build"
    /\ \E ok \in BOOLEAN :
         IF ok THEN nlDest' = NlPublishes[nlSends + 1].dest /\ nlMain' = "send"
               ELSE nlMain' = "freeMessage" /\ UNCHANGED nlDest
    /\ UNCHANGED <<nlSessVars, nlEndpointVars, nlMsgAlloc, nlSends, nlWire, nlRxVars,
                   nlCounters, nlCleanupCalled>>
    /\ UNCHANGED nlOthers

\* solClient_session_sendMsg on session A or B, then sleepInSec ( 1 )
NlSend ==
    /\ nlMain = "send"
    /\ \E ok \in BOOLEAN :
         IF ok THEN /\ nlWire' = Append(nlWire, [k |-> nlSends + 1,
                                                 from |-> NlPublishes[nlSends + 1].from,
                                                 dest |-> nlDest])
                    /\ nlSends' = nlSends + 1
                    /\ nlMain' = "check"
               ELSE /\ nlMain' = "freeMessage"
                    /\ UNCHANGED <<nlWire, nlSends>>
    /\ UNCHANGED <<nlSessVars, nlEndpointVars, nlMsgAlloc, nlDest, nlRxVars, nlCounters,
                   nlCleanupCalled>>
    /\ UNCHANGED nlOthers

\* if ( msgCounterA != ... || msgCounterB != ... ) goto freeMessage; after
\* the first check, msgCounterB = 0
NlCheck ==
    /\ nlMain = "check"
    /\ IF <<msgCounterA, msgCounterB>> # NlExpected[nlSends]
         THEN nlMain' = "freeMessage" /\ UNCHANGED <<msgCounterB, nlInvoked>>
         ELSE /\ nlMain' = IF nlSends = 4 THEN "freeMessage"
                           ELSE IF nlSends = 2 THEN "build" ELSE "send"
              /\ IF nlSends = 1
                   THEN msgCounterB' = 0 /\ nlInvoked' = [nlInvoked EXCEPT !["B"] = 0]
                   ELSE UNCHANGED <<msgCounterB, nlInvoked>>
    /\ UNCHANGED <<nlSessVars, nlEndpointVars, nlMsgVars, nlRxVars, msgCounterA,
                   nlCleanupCalled>>
    /\ UNCHANGED nlOthers

\* freeMessage: solClient_msg_free; on an error, goto sessionConnected
NlFreeMessage ==
    /\ nlMain = "freeMessage"
    /\ \E ok \in BOOLEAN :
         IF ok THEN nlMsgAlloc' = FALSE /\ nlMain' = "unsubscribe"
               ELSE nlMain' = "sessionConnected" /\ UNCHANGED nlMsgAlloc
    /\ UNCHANGED <<nlSessVars, nlEndpointVars, nlDest, nlSends, nlWire, nlRxVars,
                   nlCounters, nlCleanupCalled>>
    /\ UNCHANGED nlOthers

\* solClient_session_topicUnsubscribeExt ( sessionB_p, ... )
NlUnsubscribe ==
    /\ nlMain = "unsubscribe"
    /\ \E ok \in BOOLEAN :
         nlSubscribed' = IF ok THEN nlSubscribed \ {"B"} ELSE nlSubscribed
    /\ nlMain' = "sessionConnected"
    /\ UNCHANGED <<nlConnected, nlEverConnected, nlDisconnectCalled, nlEndpointVars,
                   nlMsgVars, nlRxVars, nlCounters, nlCleanupCalled>>
    /\ UNCHANGED nlOthers

\* sessionConnected: solClient_flow_destroy if flow_p != NULL, then
\* common_deleteQueue, which may fail
NlDestroyFlowAndQueue ==
    /\ nlMain = "sessionConnected"
    /\ nlFlowBound' = FALSE
    /\ nlTransit' = [nlTransit EXCEPT !["flow"] = <<>>]
    /\ nlDeleteCalled' = TRUE
    /\ \E ok \in BOOLEAN : nlQueue' = IF ok THEN NlNoQueue ELSE nlQueue
    /\ nlMain' = "disconnect"
    /\ UNCHANGED <<nlSessVars, nlProvisioned, nlMsgVars, nlRejected, nlCb, nlInvokedEver,
                   nlLog, nlCounters, nlCleanupCalled>>
    /\ UNCHANGED nlOthers

\* solClient_session_disconnect of session A and of session B
NlDisconnect ==
    /\ nlMain = "disconnect"
    /\ nlDisconnectCalled' = nlDisconnectCalled \cup {"A", "B"}
    /\ nlConnected' = {}
    /\ nlTransit' = [t \in {"A", "B", "flow"} |-> <<>>]
    /\ nlWire' = <<>>
    /\ nlMain' = "cleanup"
    /\ UNCHANGED <<nlEverConnected, nlSubscribed, nlEndpointVars, nlMsgAlloc, nlDest,
                   nlSends, nlRejected, nlCb, nlInvokedEver, nlLog, nlCounters,
                   nlCleanupCalled>>
    /\ UNCHANGED nlOthers

\* cleanup: solClient_cleanup, which tears down what is left; return 0
NlCleanup ==
    /\ nlMain = "cleanup"
    /\ nlCb.who = "none"
    /\ nlCleanupCalled' = TRUE
    /\ nlConnected' = {}
    /\ nlTransit' = [t \in {"A", "B", "flow"} |-> <<>>]
    /\ nlWire' = <<>>
    /\ nlMain' = "done"
    /\ UNCHANGED <<nlEverConnected, nlDisconnectCalled, nlSubscribed, nlEndpointVars,
                   nlMsgAlloc, nlDest, nlSends, nlRejected, nlCb, nlInvokedEver, nlLog,
                   nlCounters>>
    /\ UNCHANGED nlOthers

\* the counter a receive callback was given as user_p: the flow and session A
\* share msgCounterA
NlCounterOf(t) == IF t = "B" THEN "B" ELSE "A"

\* The appliance routes a published message.  A Direct message to the topic
\* goes to every subscribed session, except the publishing one if that has
\* NO_LOCAL enabled.  A message to the queue is rejected (No Local Discard) if
\* the queue's flow has NO_LOCAL enabled and belongs to the publishing
\* session, or if there is no such queue; otherwise it is spooled.
NlRoute ==
    /\ nlWire # <<>>
    /\ LET m == Head(nlWire)
           to == {s \in nlSubscribed \cap nlConnected :
                     ~(s = m.from /\ s \in NlNoLocal)}
       IN  IF m.dest = "topic"
             THEN /\ nlTransit' = [t \in {"A", "B", "flow"} |->
                                     IF t \in to THEN Append(nlTransit[t], m)
                                     ELSE nlTransit[t]]
                  /\ UNCHANGED <<nlQueue, nlRejected>>
             ELSE IF \/ ~nlQueue.exists
                     \/ (nlFlowBound /\ "flow" \in NlNoLocal /\ m.from = "A")
                    THEN /\ nlRejected' = nlRejected \cup {m.k}
                         /\ UNCHANGED <<nlQueue, nlTransit>>
                    ELSE /\ nlQueue' = [nlQueue EXCEPT !.msgs = Append(@, m)]
                         /\ UNCHANGED <<nlRejected, nlTransit>>
    /\ nlWire' = Tail(nlWire)
    /\ UNCHANGED <<nlMain, nlSessVars, nlProvisioned, nlDeleteCalled, nlFlowBound,
                   nlMsgAlloc, nlDest, nlSends, nlCb, nlInvokedEver, nlLog, nlCounters,
                   nlCleanupCalled>>
    /\ UNCHANGED nlOthers

\* the appliance sends the oldest spooled message down the bound flow
NlFlowDeliver ==
    /\ nlFlowBound
    /\ nlQueue.msgs # <<>>
    /\ nlTransit' = [nlTransit EXCEPT !["flow"] = Append(@, Head(nlQueue.msgs))]
    /\ nlQueue' = [nlQueue EXCEPT !.msgs = Tail(@)]
    /\ UNCHANGED <<nlMain, nlSessVars, nlProvisioned, nlDeleteCalled, nlFlowBound,
                   nlMsgVars, nlRejected, nlCb, nlInvokedEver, nlLog, nlCounters,
                   nlCleanupCalled>>
    /\ UNCHANGED nlOthers

\* The context thread, when it is in no callback, calls the receive callback
\* of a session or of the flow with the next message: messageReceiveCallback
\* or flowMessageReceiveCallback loads *counter_p.
NlCbLoad ==
    /\ nlCb.who = "none"
    /\ \E t \in {"A", "B", "flow"} :
         /\ nlTransit[t] # <<>>
         /\ nlCb' = [who |-> t,
                     loaded |-> IF NlCounterOf(t) = "A" THEN msgCounterA ELSE msgCounterB]
         /\ nlInvoked' = [nlInvoked EXCEPT ![NlCounterOf(t)] = @ + 1]
         /\ nlInvokedEver' = [nlInvokedEver EXCEPT ![NlCounterOf(t)] = @ + 1]
         /\ nlLog' = nlLog \cup {[k |-> Head(nlTransit[t]).k,
                                  from |-> Head(nlTransit[t]).from, to |-> t]}
         /\ nlTransit' = [nlTransit EXCEPT ![t] = Tail(@)]
    /\ UNCHANGED <<nlMain, nlSessVars, nlEndpointVars, nlMsgVars, nlRejected,
                   msgCounterA, msgCounterB, nlCleanupCalled>>
    /\ UNCHANGED nlOthers

\* a callback that leaves the counter as it found it
NlIncrementedLost(loaded) == loaded

\* ( *counter_p )++
NlIncremented(loaded) == loaded + 1

\* the callback stores the incremented counter (the flow's callback also
\* acknowledges the message) and returns SOLCLIENT_CALLBACK_OK
NlCbStore ==
    /\ nlCb.who # "none"
    /\ IF NlCounterOf(nlCb.who) = "A"
         THEN msgCounterA' = NlIncremented(nlCb.loaded) /\ UNCHANGED msgCounterB
         ELSE msgCounterB' = NlIncremented(nlCb.loaded) /\ UNCHANGED msgCounterA
    /\ nlCb' = [who |-> "none", loaded |-> 0]
    /\ UNCHANGED <<nlMain, nlSessVars, nlEndpointVars, nlMsgVars, nlTransit, nlRejected,
                   nlInvoked, nlInvokedEver, nlLog, nlCleanupCalled>>
    /\ UNCHANGED nlOthers

NlNext ==
    \/ NlCreateContext
    \/ NlConnectA
    \/ NlIsCapable
    \/ NlCreateB
    \/ NlConnectB
    \/ NlSubscribeB
    \/ NlCreateQueue
    \/ NlCreateFlow
    \/ NlMsgAlloc
    \/ NlBuild
    \/ NlSend
    \/ NlCheck
    \/ NlFreeMessage
    \/ NlUnsubscribe
    \/ NlDestroyFlowAndQueue
    \/ NlDisconnect
    \/ NlCleanup
    \/ NlRoute
    \/ NlFlowDeliver
    \/ NlCbLoad
    \/ NlCbStore

InitNL == NlInit /\ FcIdle /\ AfIdle /\ AkIdle /\ TtIdle /\ PxIdle /\ TdIdle /\ TxIdle /\ MrIdle /\ CrIdle /\ RpIdle /\ PtIdle /\ CnIdle /\ RqIdle /\ RlIdle /\ QpIdle /\ PmIdle /\ PuIdle

SpecNL == InitNL /\ [][NlNext]_vars

\* nothing is on its way to a receive callback of noLocalPubSub
NlDrained ==
    /\ nlWire = <<>>
    /\ \A t \in {"A", "B", "flow"} : nlTransit[t] = <<>>
    /\ nlQueue.msgs = <<>>
    /\ nlCb.who = "none"

(***************************************************************************)
(* C12: when main() of noLocalPubSub calls solClient_cleanup, after a       *)
(* handled error or not, solClient_session_disconnect was called on every  *)
(* session that was connected and common_deleteQueue was called if the     *)
(* example provisioned the queue.                                          *)
(***************************************************************************)
C12_CleanupBeforeExit ==
    nlCleanupCalled =>
        /\ nlEverConnected \subseteq nlDisconnectCalled
        /\ nlProvisioned => nlDeleteCalled

C20_NoLocalDelivery ==
    /\ \A d \in nlLog : ~(d.from = "B" /\ d.to = "B") /\ ~(d.from = "A" /\ d.to \in {"A", "flow"})
    /\ (nlMain = "check" /\ nlSends \in 1..4) =>
          LET want == << <<0, 1>>, <<0, 0>>, <<0, 0>>, <<1, 0>> >>[nlSends]
          IN  /\ msgCounterA <= want[1]
              /\ msgCounterB <= want[2]
              /\ NlDrained => <<msgCounterA, msgCounterB>> = want
    /\ (nlMain \in {"build", "send"} /\ nlSends >= 1) =>
          /\ <<msgCounterA, msgCounterB>> = <<0, 0>>
          /\ nlSends = 3 => (NlDrained => 3 \in nlRejected)

\* all four messages were published: the first reached session B, the fourth
\* the flow of session A, the third was rejected, the second went nowhere
C20_Witness ==
    /\ nlMain = "check"
    /\ nlSends = 4
    /\ NlDrained
    /\ <<msgCounterA, msgCounterB>> = <<1, 0>>
    /\ nlRejected = {3}
    /\ nlLog = {[k |-> 1, from |-> "A", to |-> "B"], [k |-> 4, from |-> "B", to |-> "flow"]}

(***************************************************************************)
(* topicDispatch.c                                                         *)
(***************************************************************************)
\* the callbacks: 0 is solSessionMsgReceiveCallback, 1..3 are
\* solDispatchMsgReceiveCallback1..3
TdCallbacks == 0..3

RECURSIVE TdMatches(_, _)
\* the topic matches the subscription pattern, level by level; ">" as the
\* last level of the pattern matches one or more levels
TdMatches(pattern, topic) ==
    IF pattern = <<>> THEN topic = <<>>
    ELSE IF topic = <<>> THEN FALSE
    ELSE IF Head(pattern) = ">" THEN Len(pattern) = 1
    ELSE Head(pattern) = Head(topic) /\ TdMatches(Tail(pattern), Tail(topic))

\* registrations in which the third dispatch function is given "c/>" too
TdRegistrationsWide ==
    << [pattern |-> <<"a", ">">>, cb |-> 0, appliance |-> TRUE],
       [pattern |-> <<"a", "b">>, cb |-> 1, appliance |-> FALSE],
       [pattern |-> <<"c", ">">>, cb |-> 2, appliance |-> TRUE],
       [pattern |-> <<"c", ">">>, cb |-> 3, appliance |-> FALSE] >>

\* what main() registers, in order: the session subscription "a/>", the local
\* dispatch "a/b", the dispatch and subscription "c/>", the local dispatch "c/d"
TdRegistrations ==
    << [pattern |-> <<"a", ">">>, cb |-> 0, appliance |-> TRUE],
       [pattern |-> <<"a", "b">>, cb |-> 1, appliance |-> FALSE],
       [pattern |-> <<"c", ">">>, cb |-> 2, appliance |-> TRUE],
       [pattern |-> <<"c", "d">>, cb |-> 3, appliance |-> FALSE] >>

\* the topics main() publishes to, in order: a/c, a/b, c/d, c/e
TdTopics == << <<"a", "c">>, <<"a", "b">>, <<"c", "d">>, <<"c", "e">> >>

TdInit ==
    /\ tdMain = "connect"
    /\ tdStep = 1
    /\ tdConnected = FALSE
    /\ tdSubs = {}
    /\ tdTable = {}
    /\ tdPublished = {}
    /\ tdWire = <<>>
    /\ tdTransit = <<>>
    /\ solMsgRxCount = [c \in TdCallbacks |-> 0]
    /\ tdCalls = [k \in 1..4 |-> [c \in TdCallbacks |-> 0]]
    /\ tdHandled = {}

tdRxVars == <<tdTransit, solMsgRxCount, tdCalls, tdHandled>>

\* solClient_context_create, solClient_session_create with
\* SOLCLIENT_SESSION_PROP_TOPIC_DISPATCH enabled, solClient_session_connect;
\* on an error, goto cleanup
TdConnect ==
    /\ tdMain = "connect"
    /\ \E ok \in BOOLEAN :
         IF ok THEN tdConnected' = TRUE /\ tdMain' = "subscribe"
               ELSE tdMain' = "cleanup" /\ UNCHANGED tdConnected
    /\ UNCHANGED <<tdStep, tdSubs, tdTable, tdPublished, tdWire, tdRxVars>>
    /\ UNCHANGED tdOthers

\* solClient_session_topicSubscribeExt and the three
\* solClient_session_topicSubscribeWithDispatch calls, one per step; on an
\* error, goto sessionConnected
TdSubscribe ==
    /\ tdMain = "subscribe"
    /\ LET r == TdRegistrations[tdStep]
       IN  \E ok \in BOOLEAN :
             IF ok
               THEN /\ tdSubs' = IF r.appliance THEN tdSubs \cup {r.pattern} ELSE tdSubs
                    /\ tdTable' = IF r.cb # 0
                                    THEN tdTable \cup {[pattern |-> r.pattern, cb |-> r.cb]}
                                    ELSE tdTable
                    /\ IF tdStep < Len(TdRegistrations)
                         THEN tdStep' = tdStep + 1 /\ UNCHANGED tdMain
                         ELSE tdStep' = 1 /\ tdMain' = "publish"
               ELSE /\ tdMain' = "sessionConnected"
                    /\ UNCHANGED <<tdSubs, tdTable, tdStep>>
    /\ UNCHANGED <<tdConnected, tdPublished, tdWire, tdRxVars>>
    /\ UNCHANGED tdOthers

\* the four common_publishMessage calls, one per step; the return code is
\* not looked at
TdPublish ==
    /\ tdMain = "publish"
    /\ \E ok \in BOOLEAN :
         IF ok THEN /\ tdWire' = Append(tdWire, tdStep)
                    /\ tdPublished' = tdPublished \cup {tdStep}
               ELSE UNCHANGED <<tdWire, tdPublished>>
    /\ IF tdStep < Len(TdTopics)
         THEN tdStep' = tdStep + 1 /\ UNCHANGED tdMain
         ELSE tdStep' = 1 /\ tdMain' = "verify"
    /\ UNCHANGED <<tdConnected, tdSubs, tdTable, tdRxVars>>
    /\ UNCHANGED tdOthers

\* sleepInSec ( 1 ) and the four comparisons, which only print
TdVerify ==
    /\ tdMain = "verify"
    /\ tdMain' = "sessionConnected"
    /\ UNCHANGED <<tdStep, tdConnected, tdSubs, tdTable, tdPublished, tdWire, tdRxVars>>
    /\ UNCHANGED tdOthers

\* sessionConnected: solClient_session_disconnect
TdDisconnect ==
    /\ tdMain = "sessionConnected"
    /\ tdConnected' = FALSE
    /\ tdTransit' = <<>>
    /\ tdWire' = <<>>
    /\ tdMain' = "cleanup"
    /\ UNCHANGED <<tdStep, tdSubs, tdTable, tdPublished, solMsgRxCount, tdCalls, tdHandled>>
    /\ UNCHANGED tdOthers

\* cleanup: solClient_cleanup; return 0
TdCleanup ==
    /\ tdMain = "cleanup"
    /\ tdMain' = "done"
    /\ UNCHANGED <<tdStep, tdConnected, tdSubs, tdTable, tdPublished, tdWire, tdRxVars>>
    /\ UNCHANGED tdOthers

\* the appliance sends a published message to the session, once, if one of
\* the session's subscriptions matches its topic
TdRoute ==
    /\ tdWire # <<>>
    /\ tdTransit' = IF \E p \in tdSubs : TdMatches(p, TdTopics[Head(tdWire)])
                      THEN Append(tdTransit, Head(tdWire)) ELSE tdTransit
    /\ tdWire' = Tail(tdWire)
    /\ UNCHANGED <<tdMain, tdStep, tdConnected, tdSubs, tdTable, tdPublished,
                   solMsgRxCount, tdCalls, tdHandled>>
    /\ UNCHANGED tdOthers

\* a session that also calls its own callback when dispatch entries match
TdTargetsAndSession(topic) ==
    {e.cb : e \in {d \in tdTable : TdMatches(d.pattern, topic)}} \cup {0}

\* the callbacks a received message goes to: the callback of every dispatch
\* entry that matches the topic; the session's callback if none does
TdTargets(topic) ==
    LET hit == {e.cb : e \in {d \in tdTable : TdMatches(d.pattern, topic)}}
    IN  IF hit = {} THEN {0} ELSE hit

\* the context thread takes the next received message and calls each of its
\* callbacks with it; each callback does solMsgRxCount[n]++
TdDispatch ==
    /\ tdConnected
    /\ tdTransit # <<>>
    /\ LET k == Head(tdTransit)
           to == TdTargets(TdTopics[k])
       IN  /\ solMsgRxCount' = [c \in TdCallbacks |->
                                  IF c \in to THEN solMsgRxCount[c] + 1
                                  ELSE solMsgRxCount[c]]
           /\ tdCalls' = [tdCalls EXCEPT ![k] =
                            [c \in TdCallbacks |-> IF c \in to THEN @[c] + 1 ELSE @[c]]]
           /\ tdHandled' = tdHandled \cup {k}
    /\ tdTransit' = Tail(tdTransit)
    /\ UNCHANGED <<tdMain, tdStep, tdConnected, tdSubs, tdTable, tdPublished, tdWire>>
    /\ UNCHANGED tdOthers

TdNext ==
    \/ TdConnect
    \/ TdSubscribe
    \/ TdPublish
    \/ TdVerify
    \/ TdDisconnect
    \/ TdCleanup
    \/ TdRoute
    \/ TdDispatch

InitTD == TdInit /\ FcIdle /\ AfIdle /\ AkIdle /\ TtIdle /\ PxIdle /\ NlIdle /\ TxIdle /\ MrIdle /\ CrIdle /\ RpIdle /\ PtIdle /\ CnIdle /\ RqIdle /\ RlIdle /\ QpIdle /\ PmIdle /\ PuIdle

SpecTD == InitTD /\ [][TdNext]_vars

\* the dispatch callbacks registered with a pattern that matches the topic
TdMatching(topic) ==
    {c \in 1..3 : \E d \in tdTable : d.cb = c /\ TdMatches(d.pattern, topic)}

C14_FinalCounts ==
    LET expected == [c \in TdCallbacks |-> IF c = 2 THEN 2 ELSE 1]
    IN  /\ \A c \in TdCallbacks : solMsgRxCount[c] <= expected[c]
        /\ (/\ tdMain = "verify"
            /\ tdPublished = 1..4
            /\ tdWire = <<>> /\ tdTransit = <<>>) => solMsgRxCount = expected

\* main() is at the verification with all four messages published and received
C14_Witness ==
    /\ tdMain = "verify"
    /\ tdPublished = 1..4
    /\ tdWire = <<>> /\ tdTransit = <<>>
    /\ solMsgRxCount[2] = 2

(***************************************************************************)
(* transactions.c                                                          *)
(***************************************************************************)
TxInit ==
    /\ txMain = "connect"
    /\ txCb = "idle"
    /\ txTs = [s \in TxSessions |-> "none"]
    /\ txFlow = [s \in TxSessions |-> FALSE]
    /\ txPending = [s \in TxSessions |-> <<>>]
    /\ txUnacked = [s \in TxSessions |-> <<>>]
    /\ txTE = TxNoEndpoint
    /\ txReplyQ = TxNoEndpoint
    /\ txRxQueue = <<>>
    /\ txCommits = [s \in TxSessions |-> 0]
    /\ txCbApi = {}
    /\ txRequestSeen = FALSE
    /\ txReplySeen = FALSE

txObjects == <<txTs, txFlow>>
txBroker == <<txPending, txUnacked, txTE, txReplyQ, txRxQueue, txCommits>>
txSeen == <<txCbApi, txRequestSeen, txReplySeen>>

\* the messages of a sequence that are the given message
TxOnly(msgs, msg) == SelectSeq(msgs, LAMBDA m : m = msg)

\* a send that takes effect at once, without waiting for the commit
TxSendOutcomeAtOnce(s, msg) ==
    [pending |-> txPending[s],
     te      |-> IF msg = "request" /\ txTE.exists THEN Append(txTE.msgs, msg) ELSE txTE.msgs,
     rq      |-> IF msg = "reply" /\ txReplyQ.exists THEN Append(txReplyQ.msgs, msg)
                 ELSE txReplyQ.msgs]

\* solClient_transactedSession_sendMsg: the message becomes part of the
\* session's transaction and reaches no endpoint yet
TxSendOutcome(s, msg) ==
    [pending |-> Append(txPending[s], msg),
     te      |-> txTE.msgs,
     rq      |-> txReplyQ.msgs]

TxSendMsg(s, msg) ==
    LET o == TxSendOutcome(s, msg)
    IN  /\ txPending' = [txPending EXCEPT ![s] = o.pending]
        /\ txTE' = [txTE EXCEPT !.msgs = o.te]
        /\ txReplyQ' = [txReplyQ EXCEPT !.msgs = o.rq]
        /\ UNCHANGED <<txUnacked, txRxQueue, txCommits>>

\* solClient_transactedSession_commit returning SOLCLIENT_OK: everything sent
\* on the session since the last commit reaches its endpoint, everything
\* received since then is consumed
TxCommitOk(s) ==
    /\ txPending' = [txPending EXCEPT ![s] = <<>>]
    /\ txUnacked' = [txUnacked EXCEPT ![s] = <<>>]
    /\ txTE' = IF txTE.exists
                 THEN [txTE EXCEPT !.msgs = @ \o TxOnly(txPending[s], "request")]
                 ELSE txTE
    /\ txReplyQ' = IF txReplyQ.exists
                     THEN [txReplyQ EXCEPT !.msgs = @ \o TxOnly(txPending[s], "reply")]
                     ELSE txReplyQ
    /\ txCommits' = [txCommits EXCEPT ![s] = @ + 1]
    /\ UNCHANGED txRxQueue

\* the transaction is rolled back: what was sent is dropped, what was received
\* goes back to its endpoint
TxRollback(s) ==
    /\ txPending' = [txPending EXCEPT ![s] = <<>>]
    /\ txUnacked' = [txUnacked EXCEPT ![s] = <<>>]
    /\ txTE' = IF txTE.exists
                 THEN [txTE EXCEPT !.msgs = TxOnly(txUnacked[s], "request") \o @]
                 ELSE txTE
    /\ txReplyQ' = IF txReplyQ.exists
                     THEN [txReplyQ EXCEPT !.msgs = TxOnly(txUnacked[s], "reply") \o @]
                     ELSE txReplyQ
    /\ UNCHANGED <<txRxQueue, txCommits>>

\* a call of main() that changes nothing in the model: on SOLCLIENT_OK main()
\* goes on, otherwise it jumps to the label
TxCall(pc, next, onError) ==
    /\ txMain = pc
    /\ \E ok \in BOOLEAN : txMain' = IF ok THEN next ELSE onError
    /\ UNCHANGED <<txCb, txObjects, txBroker, txSeen>>
    /\ UNCHANGED txOthers

\* solClient_context_create, common_createAndConnectSession
TxConnect == TxCall("connect", "capable", "cleanup")

\* the two solClient_session_isCapable tests
TxIsCapable == TxCall("capable", "createReplierTs", "sessionConnected")

\* solClient_session_createTransactedSession for either party
TxCreateTs(pc, s, next) ==
    /\ txMain = pc
    /\ \E ok \in BOOLEAN :
         IF ok THEN txTs' = [txTs EXCEPT ![s] = "active"] /\ txMain' = next
               ELSE txMain' = "sessionConnected" /\ UNCHANGED txTs
    /\ UNCHANGED <<txCb, txFlow, txBroker, txSeen>>
    /\ UNCHANGED txOthers

TxCreateReplierTs == TxCreateTs("createReplierTs", "Replier", "provision")

\* solClient_session_endpointProvision; endpointProvisioned = TRUE
TxProvision ==
    /\ txMain = "provision"
    /\ \E ok \in BOOLEAN :
         IF ok THEN txTE' = [exists |-> TRUE, msgs |-> <<>>] /\ txMain' = "createReplierFlow"
               ELSE txMain' = "sessionConnected" /\ UNCHANGED txTE
    /\ UNCHANGED <<txCb, txObjects, txPending, txUnacked, txReplyQ, txRxQueue, txCommits, txSeen>>
    /\ UNCHANGED txOthers

\* solClient_transactedSession_createFlow with replierFlowRxMsgCallbackFunc,
\* bound to the topic endpoint
TxCreateReplierFlow ==
    /\ txMain = "createReplierFlow"
    /\ \E ok \in BOOLEAN :
         IF ok THEN txFlow' = [txFlow EXCEPT !["Replier"] = TRUE] /\ txMain' = "createRequestorTs"
               ELSE txMain' = "sessionConnected" /\ UNCHANGED txFlow
    /\ UNCHANGED <<txCb, txTs, txBroker, txSeen>>
    /\ UNCHANGED txOthers

TxCreateRequestorTs == TxCreateTs("createRequestorTs", "Requestor", "createRequestorFlow")

\* solClient_transactedSession_createFlow without a callback, on a temporary
\* queue
TxCreateRequestorFlow ==
    /\ txMain = "createRequestorFlow"
    /\ \E ok \in BOOLEAN :
         IF ok THEN /\ txFlow' = [txFlow EXCEPT !["Requestor"] = TRUE]
                    /\ txReplyQ' = [exists |-> TRUE, msgs |-> <<>>]
                    /\ txMain' = "msgAlloc"
               ELSE txMain' = "sessionConnected" /\ UNCHANGED <<txFlow, txReplyQ>>
    /\ UNCHANGED <<txCb, txTs, txPending, txUnacked, txTE, txRxQueue, txCommits, txSeen>>
    /\ UNCHANGED txOthers

\* solClient_msg_alloc ( &requestMsg_p )
TxMsgAlloc == TxCall("msgAlloc", "build", "sessionConnected")

\* the delivery mode, sender id, destination and reply-to of the request
TxBuild == TxCall("build", "send", "freeMsg")

\* solClient_transactedSession_sendMsg ( requestorTransactedSession_p, ... )
TxSend ==
    /\ txMain = "send"
    /\ \E ok \in BOOLEAN :
         IF ok THEN TxSendMsg("Requestor", "request") /\ txMain' = "commit1"
               ELSE txMain' = "freeMsg" /\ UNCHANGED txBroker
    /\ UNCHANGED <<txCb, txObjects, txSeen>>
    /\ UNCHANGED txOthers

\* solClient_transactedSession_commit ( requestorTransactedSession_p ), both
\* times
TxCommit(pc, next) ==
    /\ txMain = pc
    /\ \/ TxCommitOk("Requestor") /\ txMain' = next
       \/ TxRollback("Requestor") /\ txMain' = "freeMsg"
       \/ UNCHANGED txBroker /\ txMain' = "freeMsg"
    /\ UNCHANGED <<txCb, txObjects, txSeen>>
    /\ UNCHANGED txOthers

TxCommit1 == TxCommit("commit1", "receive")

\* a solClient_flow_receiveMsg whose timeout also takes the flow down
TxReceiveUnbinding ==
    /\ txMain = "receive"
    /\ IF txRxQueue # <<>>
         THEN /\ txUnacked' = [txUnacked EXCEPT !["Requestor"] = Append(@, Head(txRxQueue))]
              /\ txRxQueue' = Tail(txRxQueue)
              /\ txReplySeen' = TRUE
              /\ txMain' = "freeReply"
              /\ UNCHANGED txFlow
         ELSE /\ txMain' = "freeMsg"
              /\ txFlow' = [txFlow EXCEPT !["Requestor"] = FALSE]
              /\ UNCHANGED <<txUnacked, txRxQueue, txReplySeen>>
    /\ UNCHANGED <<txCb, txTs, txPending, txTE, txReplyQ, txCommits, txCbApi, txRequestSeen>>
    /\ UNCHANGED txOthers

\* solClient_flow_receiveMsg ( requestorFlow_p, &replyMsg_p, 10000 ): returns
\* a message the flow holds, or gives up after the ten seconds
TxReceive ==
    /\ txMain = "receive"
    /\ IF txRxQueue # <<>>
         THEN /\ txUnacked' = [txUnacked EXCEPT !["Requestor"] = Append(@, Head(txRxQueue))]
              /\ txRxQueue' = Tail(txRxQueue)
              /\ txReplySeen' = TRUE
              /\ txMain' = "freeReply"
         ELSE /\ txMain' = "freeMsg"
              /\ UNCHANGED <<txUnacked, txRxQueue, txReplySeen>>
    /\ UNCHANGED <<txCb, txObjects, txPending, txTE, txReplyQ, txCommits, txCbApi, txRequestSeen>>
    /\ UNCHANGED txOthers

\* solClient_msg_free ( &replyMsg_p )
TxFreeReply == TxCall("freeReply", "commit2", "freeMsg")

TxCommit2 == TxCommit("commit2", "freeMsg")

\* freeMsg: solClient_msg_free ( &requestMsg_p )
TxFreeMsg ==
    /\ txMain = "freeMsg"
    /\ txMain' = "sessionConnected"
    /\ UNCHANGED <<txCb, txObjects, txBroker, txSeen>>
    /\ UNCHANGED txOthers

\* sessionConnected: solClient_transactedSession_destroy for both parties;
\* what they had not committed is rolled back and their flows are gone
TxDestroySessions ==
    /\ txMain = "sessionConnected"
    /\ txTs' = [s \in TxSessions |-> IF txTs[s] = "none" THEN "none" ELSE "destroyed"]
    /\ txFlow' = [s \in TxSessions |-> FALSE]
    /\ txPending' = [s \in TxSessions |-> <<>>]
    /\ txUnacked' = [s \in TxSessions |-> <<>>]
    /\ txTE' = IF txTE.exists
                 THEN [txTE EXCEPT !.msgs = TxOnly(txUnacked["Replier"], "request") \o @]
                 ELSE txTE
    /\ txReplyQ' = TxNoEndpoint
    /\ txRxQueue' = <<>>
    /\ txMain' = "deprovision"
    /\ UNCHANGED <<txCb, txCommits, txSeen>>
    /\ UNCHANGED txOthers

\* solClient_session_endpointDeprovision if endpointProvisioned, then
\* solClient_session_disconnect
TxDisconnect ==
    /\ txMain = "deprovision"
    /\ txTE' = TxNoEndpoint
    /\ txMain' = "cleanup"
    /\ UNCHANGED <<txCb, txObjects, txPending, txUnacked, txReplyQ, txRxQueue, txCommits, txSeen>>
    /\ UNCHANGED txOthers

\* cleanup: solClient_cleanup; return 0
TxCleanup ==
    /\ txMain = "cleanup"
    /\ txMain' = "done"
    /\ UNCHANGED <<txCb, txObjects, txBroker, txSeen>>
    /\ UNCHANGED txOthers

\* the appliance gives the replier's flow a message of the topic endpoint and
\* the flow calls replierFlowRxMsgCallbackFunc with it
TxDeliverRequest ==
    /\ txFlow["Replier"]
    /\ txCb = "idle"
    /\ txTE.msgs # <<>>
    /\ txUnacked' = [txUnacked EXCEPT !["Replier"] = Append(@, Head(txTE.msgs))]
    /\ txTE' = [txTE EXCEPT !.msgs = Tail(@)]
    /\ txRequestSeen' = TRUE
    /\ txCb' = "get"
    /\ UNCHANGED <<txMain, txObjects, txPending, txReplyQ, txRxQueue, txCommits, txCbApi, txReplySeen>>
    /\ UNCHANGED txOthers

\* the appliance gives the requestor's flow a message of the temporary queue
TxDeliverReply ==
    /\ txFlow["Requestor"]
    /\ txReplyQ.msgs # <<>>
    /\ txRxQueue' = Append(txRxQueue, Head(txReplyQ.msgs))
    /\ txReplyQ' = [txReplyQ EXCEPT !.msgs = Tail(@)]
    /\ UNCHANGED <<txMain, txCb, txObjects, txPending, txUnacked, txTE, txCommits, txSeen>>
    /\ UNCHANGED txOthers

\* a call of the callback that changes nothing in the model
TxCbCall(pc, next, onError) ==
    /\ txCb = pc
    /\ \E ok \in BOOLEAN : txCb' = IF ok THEN next ELSE onError
    /\ UNCHANGED <<txMain, txObjects, txBroker, txSeen>>
    /\ UNCHANGED txOthers

\* solClient_msg_getSenderId, solClient_msg_getReplyTo,
\* solClient_flow_getTransactedSession; on an error, goto done
TxCbGet == TxCbCall("get", "alloc", "idle")

\* solClient_msg_alloc ( &replyMsg_p ); on an error, goto done
TxCbAlloc == TxCbCall("alloc", "set", "idle")

\* solClient_msg_setDestination, solClient_msg_setDeliveryMode
TxCbSet == TxCbCall("set", "send", "freeMsg")

\* solClient_transactedSession_sendMsg ( transactedSession_p, replyMsg_p ),
\* called by the callback
TxCbSend ==
    /\ txCb = "send"
    /\ txCbApi' = txCbApi \cup {"solClient_transactedSession_sendMsg"}
    /\ \/ /\ txTs["Replier"] = "active"
          /\ TxSendMsg("Replier", "reply")
          /\ txCb' = "commit"
       \/ UNCHANGED txBroker /\ txCb' = "freeMsg"
    /\ UNCHANGED <<txMain, txObjects, txRequestSeen, txReplySeen>>
    /\ UNCHANGED txOthers

\* solClient_transactedSession_commit ( transactedSession_p ), called by the
\* callback
TxCbCommit ==
    /\ txCb = "commit"
    /\ txCbApi' = txCbApi \cup {"solClient_transactedSession_commit"}
    /\ \/ txTs["Replier"] = "active" /\ TxCommitOk("Replier")
       \/ txTs["Replier"] = "active" /\ TxRollback("Replier")
       \/ UNCHANGED txBroker
    /\ txCb' = "freeMsg"
    /\ UNCHANGED <<txMain, txObjects, txRequestSeen, txReplySeen>>
    /\ UNCHANGED txOthers

\* freeMsg: solClient_msg_free ( &replyMsg_p ); done: return
\* SOLCLIENT_CALLBACK_OK
TxCbFree ==
    /\ txCb = "freeMsg"
    /\ txCb' = "idle"
    /\ UNCHANGED <<txMain, txObjects, txBroker, txSeen>>
    /\ UNCHANGED txOthers

TxNext ==
    \/ TxConnect
    \/ TxIsCapable
    \/ TxCreateReplierTs
    \/ TxProvision
    \/ TxCreateReplierFlow
    \/ TxCreateRequestorTs
    \/ TxCreateRequestorFlow
    \/ TxMsgAlloc
    \/ TxBuild
    \/ TxSend
    \/ TxCommit1
    \/ TxReceive
    \/ TxFreeReply
    \/ TxCommit2
    \/ TxFreeMsg
    \/ TxDestroySessions
    \/ TxDisconnect
    \/ TxCleanup
    \/ TxDeliverRequest
    \/ TxDeliverReply
    \/ TxCbGet
    \/ TxCbAlloc
    \/ TxCbSet
    \/ TxCbSend
    \/ TxCbCommit
    \/ TxCbFree

InitTX == TxInit /\ FcIdle /\ AfIdle /\ AkIdle /\ TtIdle /\ PxIdle /\ NlIdle /\ TdIdle /\ MrIdle /\ CrIdle /\ RpIdle /\ PtIdle /\ CnIdle /\ RqIdle /\ RlIdle /\ QpIdle /\ PmIdle /\ PuIdle

SpecTX == InitTX /\ [][TxNext]_vars

\* the sending calls that are not to be made from a callback
TxSendingCalls ==
    {"solClient_session_sendMsg", "solClient_transactedSession_sendMsg",
     "solClient_transactedSession_commit"}

\* C15: no callback makes a sending call (send, transacted send, commit) into
\* the API; callbacks only record state and return.
C15_CallbacksOnlyRecord == txCbApi \cap TxSendingCalls = {}

MaxReceived == 100

MrInit ==
    /\ mrMain = "connect"
    /\ mrCb = "idle"
    /\ mrConnected = FALSE
    /\ mrSubscribed = FALSE
    /\ mrWire = 0
    /\ mrTransit = 0
    /\ msgReceived_s = 0
    /\ mrCbApi = {}
    /\ mrUnsubscribeCalled = FALSE
    /\ mrDisconnectCalled = FALSE
    /\ mrCleanupCalled = FALSE

mrNet == <<mrConnected, mrSubscribed, mrWire, mrTransit>>
mrCalled == <<mrUnsubscribeCalled, mrDisconnectCalled, mrCleanupCalled>>

\* a call of main() that changes nothing in the model
MrCall(pc, next, onError) ==
    /\ mrMain = pc
    /\ \E ok \in BOOLEAN : mrMain' = IF ok THEN next ELSE onError
    /\ UNCHANGED <<mrCb, mrNet, msgReceived_s, mrCbApi, mrCalled>>
    /\ UNCHANGED mrOthers

\* solClient_context_create, solClient_session_create,
\* solClient_session_connect; on an error, goto cleanup
MrConnect ==
    /\ mrMain = "connect"
    /\ \E ok \in BOOLEAN :
         IF ok THEN mrConnected' = TRUE /\ mrMain' = "subscribe"
               ELSE mrMain' = "cleanup" /\ UNCHANGED mrConnected
    /\ UNCHANGED <<mrCb, mrSubscribed, mrWire, mrTransit, msgReceived_s, mrCbApi, mrCalled>>
    /\ UNCHANGED mrOthers

\* solClient_session_topicSubscribeExt ( ..., COMMON_MY_SAMPLE_TOPIC )
MrSubscribe ==
    /\ mrMain = "subscribe"
    /\ \E ok \in BOOLEAN :
         IF ok THEN mrSubscribed' = TRUE /\ mrMain' = "msgAlloc"
               ELSE mrMain' = "sessionConnected" /\ UNCHANGED mrSubscribed
    /\ UNCHANGED <<mrCb, mrConnected, mrWire, mrTransit, msgReceived_s, mrCbApi, mrCalled>>
    /\ UNCHANGED mrOthers

\* solClient_msg_alloc ( &msg_p )
MrMsgAlloc == MrCall("msgAlloc", "build", "sessionConnected")

\* the delivery mode, destination and attachment of the message
MrBuild == MrCall("build", "send", "freeMessage")

\* solClient_session_sendMsg ( session_p, msg_p ); freeMessage comes next
\* either way
MrSend ==
    /\ mrMain = "send"
    /\ \E ok \in BOOLEAN : mrWire' = IF ok THEN mrWire + 1 ELSE mrWire
    /\ mrMain' = "freeMessage"
    /\ UNCHANGED <<mrCb, mrConnected, mrSubscribed, mrTransit, msgReceived_s, mrCbApi, mrCalled>>
    /\ UNCHANGED mrOthers

\* freeMessage: solClient_msg_free ( &msg_p )
MrFreeMessage == MrCall("freeMessage", "wait", "sessionConnected")

\* a wait loop that never sees the count reach the maximum
MrWaitOverNever == FALSE

\* the test of the wait loop is false
MrWaitOver == ~(msgReceived_s < MaxReceived)

\* while ( msgReceived_s < 100 );
MrWait ==
    /\ mrMain = "wait"
    /\ MrWaitOver
    /\ mrMain' = "unsubscribe"
    /\ UNCHANGED <<mrCb, mrNet, msgReceived_s, mrCbApi, mrCalled>>
    /\ UNCHANGED mrOthers

\* solClient_session_topicUnsubscribeExt; sessionConnected comes next either
\* way
MrUnsubscribe ==
    /\ mrMain = "unsubscribe"
    /\ mrUnsubscribeCalled' = TRUE
    /\ \E ok \in BOOLEAN : mrSubscribed' = IF ok THEN FALSE ELSE mrSubscribed
    /\ mrMain' = "sessionConnected"
    /\ UNCHANGED <<mrCb, mrConnected, mrWire, mrTransit, msgReceived_s, mrCbApi,
                   mrDisconnectCalled, mrCleanupCalled>>
    /\ UNCHANGED mrOthers

\* sessionConnected: solClient_session_disconnect
MrDisconnect ==
    /\ mrMain = "sessionConnected"
    /\ mrDisconnectCalled' = TRUE
    /\ mrConnected' = FALSE
    /\ mrSubscribed' = FALSE
    /\ mrWire' = 0
    /\ mrTransit' = 0
    /\ mrMain' = "cleanup"
    /\ UNCHANGED <<mrCb, msgReceived_s, mrCbApi, mrUnsubscribeCalled, mrCleanupCalled>>
    /\ UNCHANGED mrOthers

\* cleanup: solClient_cleanup; return 0
MrCleanup ==
    /\ mrMain = "cleanup"
    /\ mrCleanupCalled' = TRUE
    /\ mrMain' = "done"
    /\ UNCHANGED <<mrCb, mrNet, msgReceived_s, mrCbApi, mrUnsubscribeCalled, mrDisconnectCalled>>
    /\ UNCHANGED mrOthers

\* the steps of the main thread
MrMainStep ==
    \/ MrConnect
    \/ MrSubscribe
    \/ MrMsgAlloc
    \/ MrBuild
    \/ MrSend
    \/ MrFreeMessage
    \/ MrWait
    \/ MrUnsubscribe
    \/ MrDisconnect
    \/ MrCleanup

\* the appliance sends a published message back to the session if the session
\* is subscribed to its topic
MrRoute ==
    /\ mrWire > 0
    /\ mrWire' = mrWire - 1
    /\ mrTransit' = IF mrSubscribed THEN mrTransit + 1 ELSE mrTransit
    /\ UNCHANGED <<mrMain, mrCb, mrConnected, mrSubscribed, msgReceived_s, mrCbApi, mrCalled>>
    /\ UNCHANGED mrOthers

\* the context thread calls messageReceiveCallback with a received message:
\* msgReceived_s++
MrCbCount ==
    /\ mrConnected
    /\ mrCb = "idle"
    /\ mrTransit > 0
    /\ msgReceived_s < MaxReceived + MaxOver
    /\ mrTransit' = mrTransit - 1
    /\ msgReceived_s' = msgReceived_s + 1
    /\ mrCb' = "dump"
    /\ UNCHANGED <<mrMain, mrConnected, mrSubscribed, mrWire, mrCbApi, mrCalled>>
    /\ UNCHANGED mrOthers

\* solClient_msg_dump and solClient_msg_getSmfPtr; on an error, return
MrCbGetSmf ==
    /\ mrCb = "dump"
    /\ \E ok \in BOOLEAN : mrCb' = IF ok THEN "send" ELSE "idle"
    /\ UNCHANGED <<mrMain, mrNet, msgReceived_s, mrCbApi, mrCalled>>
    /\ UNCHANGED mrOthers

\* solClient_session_sendSmf ( opaqueSession_p, &smfBufInfo ), then return
\* SOLCLIENT_CALLBACK_OK
MrCbSendSmf ==
    /\ mrCb = "send"
    /\ mrCbApi' = mrCbApi \cup {"solClient_session_sendSmf"}
    /\ \E ok \in BOOLEAN : mrWire' = IF ok /\ mrConnected THEN mrWire + 1 ELSE mrWire
    /\ mrCb' = "idle"
    /\ UNCHANGED <<mrMain, mrConnected, mrSubscribed, mrTransit, msgReceived_s, mrCalled>>
    /\ UNCHANGED mrOthers

MrNext ==
    \/ MrMainStep
    \/ MrRoute
    \/ MrCbCount
    \/ MrCbGetSmf
    \/ MrCbSendSmf

InitMR == MrInit /\ FcIdle /\ AfIdle /\ AkIdle /\ TtIdle /\ PxIdle /\ NlIdle /\ TdIdle /\ TxIdle /\ CrIdle /\ RpIdle /\ PtIdle /\ CnIdle /\ RqIdle /\ RlIdle /\ QpIdle /\ PmIdle /\ PuIdle

SpecMR == InitMR /\ [][MrNext]_vars

\* the main thread keeps running: each of its calls returns and the wait loop
\* keeps testing the counter
SpecMRFair == SpecMR /\ WF_vars(MrMainStep)

\* C17: once messageReceiveCallback has counted 100 messages, the main thread
\* leaves its wait loop, unsubscribes, disconnects, cleans up, and the
\* application exits.
C17_ExitAfterMaxReceived ==
    /\ (mrMain = "wait" /\ msgReceived_s >= MaxReceived) ~>
           (/\ mrMain = "done"
            /\ mrUnsubscribeCalled /\ mrDisconnectCalled /\ mrCleanupCalled)
    /\ (msgReceived_s >= MaxReceived) ~> (mrMain = "done")

\* the application has exited after the hundredth message, with the
\* unsubscribe made
C17_Witness ==
    /\ mrMain = "done"
    /\ msgReceived_s >= MaxReceived
    /\ mrUnsubscribeCalled /\ mrDisconnectCalled /\ mrCleanupCalled

(***************************************************************************)
(* asyncCacheRequest.c and syncCacheRequest.c                              *)
(***************************************************************************)
CrPrograms == {"asyncCacheRequest", "syncCacheRequest"}

\* the cacheFlags each program sets before the request
CrFlagsOf(program) ==
    IF program = "asyncCacheRequest"
      THEN {"SOLCLIENT_CACHEREQUEST_FLAGS_LIVEDATA_QUEUE",
            "SOLCLIENT_CACHEREQUEST_FLAGS_NOWAIT_REPLY"}
      ELSE {"SOLCLIENT_CACHEREQUEST_FLAGS_LIVEDATA_QUEUE"}

CrInit ==
    /\ crProgram \in CrPrograms
    /\ crMain = "connect"
    /\ crConnected = FALSE
    /\ crCached = 0
    /\ crCacheSession = FALSE
    /\ cacheFlags = {}
    /\ crRequest = "none"
    /\ crRc = "none"
    /\ crAtReturn = "none"
    /\ crDispatch = <<>>
    /\ crReceived = 0
    /\ crEvents = 0

crFixed == <<crProgram, crConnected, crCached, crCacheSession, cacheFlags>>
crCall == <<crRequest, crRc, crAtReturn>>
crRx == <<crDispatch, crReceived, crEvents>>

\* the request is over: the cache has responded or the request has timed out
CrCompleted == crRequest \in {"responded", "timedout"}

\* solClient_context_create, common_createAndConnectSession; on an error,
\* goto cleanup
CrConnect ==
    /\ crMain = "connect"
    /\ \E ok \in BOOLEAN :
         IF ok THEN crConnected' = TRUE /\ crMain' = "publish"
               ELSE crMain' = "cleanup" /\ UNCHANGED crConnected
    /\ UNCHANGED <<crProgram, crCached, crCacheSession, cacheFlags, crCall, crRx>>
    /\ UNCHANGED crOthers

\* common_publishMessage to the topic; the cache then holds some messages of
\* the topic, or none
CrPublish ==
    /\ crMain = "publish"
    /\ \E ok \in BOOLEAN :
         IF ok THEN /\ \E held \in 0..MaxCached : crCached' = held
                    /\ crMain' = "createCacheSession"
               ELSE crMain' = "sessionConnected" /\ UNCHANGED crCached
    /\ UNCHANGED <<crProgram, crConnected, crCacheSession, cacheFlags, crCall, crRx>>
    /\ UNCHANGED crOthers

\* solClient_session_createCacheSession, then the assignment to cacheFlags
CrCreateCacheSession ==
    /\ crMain = "createCacheSession"
    /\ \E ok \in BOOLEAN :
         IF ok THEN /\ crCacheSession' = TRUE
                    /\ cacheFlags' = CrFlagsOf(crProgram)
                    /\ crMain' = "send"
               ELSE crMain' = "sessionConnected" /\ UNCHANGED <<crCacheSession, cacheFlags>>
    /\ UNCHANGED <<crProgram, crConnected, crCached, crCall, crRx>>
    /\ UNCHANGED crOthers

\* a request that never blocks, whatever its flags
CrBlocksNever(flags) == FALSE

\* solClient_cacheSession_sendCacheRequest blocks until the request completes
\* unless SOLCLIENT_CACHEREQUEST_FLAGS_NOWAIT_REPLY is set
CrBlocks(flags) == "SOLCLIENT_CACHEREQUEST_FLAGS_NOWAIT_REPLY" \notin flags

\* solClient_cacheSession_sendCacheRequest is called: the request is not sent
\* and the call fails at once, or the request is sent and the call either
\* blocks or returns SOLCLIENT_IN_PROGRESS. asyncCacheRequest goes on to its
\* sleep on SOLCLIENT_IN_PROGRESS, syncCacheRequest goes to cleanupCache on
\* anything but SOLCLIENT_OK.
CrSendCacheRequest ==
    /\ crMain = "send"
    /\ \/ /\ crRc' = "SOLCLIENT_FAIL"
          /\ crMain' = "cleanupCache"
          /\ UNCHANGED <<crRequest, crAtReturn>>
       \/ /\ crRequest' = "pending"
          /\ IF CrBlocks(cacheFlags)
               THEN crMain' = "blocked" /\ UNCHANGED <<crRc, crAtReturn>>
               ELSE /\ crRc' = "SOLCLIENT_IN_PROGRESS"
                    /\ crAtReturn' = "pending"
                    /\ crMain' = IF crProgram = "asyncCacheRequest" THEN "sleep"
                                 ELSE "cleanupCache"
    /\ UNCHANGED <<crFixed, crRx>>
    /\ UNCHANGED crOthers

\* the blocked call returns: the request is over and the context thread has
\* handed the response to the message receive callback
CrReturn ==
    /\ crMain = "blocked"
    /\ CrCompleted
    /\ crDispatch = <<>>
    /\ crRc' = IF crRequest = "responded" THEN "SOLCLIENT_OK" ELSE "SOLCLIENT_INCOMPLETE"
    /\ crAtReturn' = crRequest
    /\ crMain' = "cleanupCache"
    /\ UNCHANGED <<crFixed, crRequest, crRx>>
    /\ UNCHANGED crOthers

\* sleepInSec ( 11 )
CrSleep ==
    /\ crMain = "sleep"
    /\ crMain' = "cleanupCache"
    /\ UNCHANGED <<crFixed, crCall, crRx>>
    /\ UNCHANGED crOthers

\* cleanupCache: solClient_cacheSession_destroy; a request that is not over,
\* or whose completion has not been handed over yet, is dropped
CrDestroyCacheSession ==
    /\ crMain = "cleanupCache"
    /\ crCacheSession' = FALSE
    /\ crRequest' = IF crRequest = "pending" \/ crDispatch # <<>> THEN "cancelled"
                    ELSE crRequest
    /\ crDispatch' = <<>>
    /\ crMain' = "sessionConnected"
    /\ UNCHANGED <<crProgram, crConnected, crCached, cacheFlags, crRc, crAtReturn,
                   crReceived, crEvents>>
    /\ UNCHANGED crOthers

\* sessionConnected: solClient_session_disconnect
CrDisconnect ==
    /\ crMain = "sessionConnected"
    /\ crConnected' = FALSE
    /\ crMain' = "cleanup"
    /\ UNCHANGED <<crProgram, crCached, crCacheSession, cacheFlags, crCall, crRx>>
    /\ UNCHANGED crOthers

\* cleanup: solClient_cleanup; return 0
CrCleanup ==
    /\ crMain = "cleanup"
    /\ crMain' = "done"
    /\ UNCHANGED <<crFixed, crCall, crRx>>
    /\ UNCHANGED crOthers

\* what completes a request leaves for the context thread: the cached
\* messages, then, for a request that did not block, the completion event
CrToDispatch(msgs) ==
    [i \in 1..msgs |-> "msg"] \o
        (IF CrBlocks(cacheFlags) THEN <<>> ELSE <<"completed">>)

\* the cache responds to the request with the messages it holds
CrCacheResponse ==
    /\ crRequest = "pending"
    /\ crRequest' = "responded"
    /\ crDispatch' = CrToDispatch(crCached)
    /\ UNCHANGED <<crMain, crFixed, crRc, crAtReturn, crReceived, crEvents>>
    /\ UNCHANGED crOthers

\* the request times out without a response
CrTimeout ==
    /\ crRequest = "pending"
    /\ crRequest' = "timedout"
    /\ crDispatch' = CrToDispatch(0)
    /\ UNCHANGED <<crMain, crFixed, crRc, crAtReturn, crReceived, crEvents>>
    /\ UNCHANGED crOthers

\* the context thread calls common_messageReceivePrintMsgCallback with a
\* cached message
CrMsgCallback ==
    /\ crDispatch # <<>>
    /\ Head(crDispatch) = "msg"
    /\ crDispatch' = Tail(crDispatch)
    /\ crReceived' = crReceived + 1
    /\ UNCHANGED <<crMain, crFixed, crCall, crEvents>>
    /\ UNCHANGED crOthers

\* the context thread calls cache_eventCallback with
\* SOLCACHE_EVENT_REQUEST_COMPLETED_NOTICE; the callback only prints and logs
cache_eventCallback ==
    /\ crDispatch # <<>>
    /\ Head(crDispatch) = "completed"
    /\ crDispatch' = Tail(crDispatch)
    /\ crEvents' = crEvents + 1
    /\ UNCHANGED <<crMain, crFixed, crCall, crReceived>>
    /\ UNCHANGED crOthers

CrNext ==
    \/ CrConnect
    \/ CrPublish
    \/ CrCreateCacheSession
    \/ CrSendCacheRequest
    \/ CrReturn
    \/ CrSleep
    \/ CrDestroyCacheSession
    \/ CrDisconnect
    \/ CrCleanup
    \/ CrCacheResponse
    \/ CrTimeout
    \/ CrMsgCallback
    \/ cache_eventCallback

InitCR == CrInit /\ FcIdle /\ AfIdle /\ AkIdle /\ TtIdle /\ PxIdle /\ NlIdle /\ TdIdle /\ TxIdle /\ MrIdle /\ RpIdle /\ PtIdle /\ CnIdle /\ RqIdle /\ RlIdle /\ QpIdle /\ PmIdle /\ PuIdle

SpecCR == InitCR /\ [][CrNext]_vars

SpecTXFair == SpecTX /\ WF_vars(TxReceive)

\* solClient_flow_receiveMsg has come back without a message
TxTimedOut == txMain = "receive" /\ txMain' = "freeMsg"

C27_NoOverwriteOfWithheldId == ~(fcCb = "store" /\ unackedMsgId # 0)

\* no call of the callback or of the resume sequence fails: solClient_msg_dump
\* and solClient_msg_getMsgId return SOLCLIENT_OK, and a solClient_flow_sendAck
\* acknowledges its message
FcCallsSucceed ==
    /\ fcCb = "dump" => fcCb' # "idle"
    /\ fcMain = "sendAck" /\ fcMain' # "sendAck" => unackedMsgId \notin fcUnacked'
    /\ fcCb = "ack" /\ fcCb' # "ack" => fcCbMsg \notin fcUnacked'

\* the runs of flowControlQueue in which no call fails
SpecFCNoFail == InitFC /\ [][FcNext /\ FcCallsSucceed]_vars

\* C26: every message delivered to flowMsgCallbackFunc gets acknowledged while
\* the flow is bound: at any moment a delivered, unacknowledged message is
\* either still with the callback, which will acknowledge it or store its id,
\* or its id is the one held in unackedMsgId for main() to acknowledge when it
\* resumes receiving. No interleaving of the callback with main()'s resume
\* sequence loses an id and leaves the window full for good.
C26_DeliveredGetsAcknowledged ==
    fcBound =>
        \A id \in fcUnacked :
            \/ fcCb # "idle" /\ fcCbMsg = id
            \/ unackedMsgId = id


(***************************************************************************)
(* adPubAck.c: the correlation entries between the two threads             *)
(***************************************************************************)
\* the entries of the list, walked from a pointer along next_p
RECURSIVE AkListFrom(_)
AkListFrom(p) == IF p = NULL THEN {} ELSE {p} \cup AkListFrom(next_p[p])

\* the broker has accepted the message of entry i: its ACKNOWLEDGEMENT event
\* is in the callback or has been handled
AkBrokerAccepted(i) ==
    \/ akHandled[i] = "ACKNOWLEDGEMENT"
    \/ AkMidCallback(i) /\ akCbEv.type = "ACKNOWLEDGEMENT"

\* C28: in adPubAck no acknowledgement or rejection event reads or writes a
\* correlation entry that has been freed; an entry whose isAcked is FALSE is
\* freed only by the cleanup loop that follows solClient_session_disconnect,
\* and from then on no event is queued and the callback is not running.
C28_NoEventOnFreedEntry ==
    /\ \A i \in AkIds : AkMidCallback(i) => i \in akLive
    /\ ~akUseAfterFree
    /\ \A i \in AkIds :
          akFreedBy[i] # "none" /\ ~isAcked[i] => akFreedBy[i] = "cleanup"
    /\ akMain \in {"cleanup", "done"} => akCb = "idle" /\ akEvents = <<>>

\* C30: when main() is at the test of its housekeeping loop and reads
\* isAcked = TRUE in the head entry, and the broker accepted that entry's
\* message, isAccepted of the entry is TRUE as well: the entry is not
\* reported and freed as rejected.
C30_AckedAcceptedSeenTogether ==
    akMain = "hkTest" /\ AkHousekeepingCond /\ AkBrokerAccepted(msgMemoryListHead_p)
        => isAccepted[msgMemoryListHead_p]

\* C29: in adPubAck an entry is in the list from its allocation until it is
\* freed, so it is in the list when its message is handed to
\* solClient_session_sendMsg and while the broker's answer is outstanding; no
\* entry is freed twice; the entries that are allocated and not freed are
\* exactly the entries of the list; and when main() returns, on whatever
\* path, the list is empty and every entry that was allocated has been freed
\* by the housekeeping pass or by the cleanup loop.
C29_EntriesLinkedAndFreedOnce ==
    /\ akLive = AkListFrom(msgMemoryListHead_p)
    /\ akMain = "send" => loop \in AkListFrom(msgMemoryListHead_p)
    /\ \A k \in 1..Len(akInFlight) : akInFlight[k] \in akLive
    /\ \A i \in AkIds : akMsg[i] # "freedTwice"
    /\ \A i \in AkIds : akFreedBy[i] # "none" => i \notin akLive
    /\ akMain = "done" =>
          /\ msgMemoryListHead_p = NULL
          /\ msgMemoryListTail_p = NULL
          /\ akLive = {}
          /\ \A i \in AkIds :
                akMsg[i] = "freed" => akFreedBy[i] \in {"housekeeping", "cleanup"}

\* main() has returned after Ctrl-C: entry 0 was freed by the housekeeping
\* pass and entry 1, never answered, by the cleanup loop
C29_Witness ==
    /\ akMain = "done"
    /\ akGotCtlC
    /\ akFreedBy[0] = "housekeeping"
    /\ akFreedBy[1] = "cleanup"
    /\ ~isAcked[1]
    /\ msgMemoryListHead_p = NULL

(***************************************************************************)
(* replication.c                                                           *)
(***************************************************************************)
\* memset ( &pubInfo, 0, sizeof ( pubInfo ) ); the session is connected with
\* replication_eventCallback and &pubInfo as its user pointer
RpInit ==
    /\ rpMain = "loopTest"
    /\ rpNumMsgs \in 1..MaxNumMsgs
    /\ rpLoop = 0
    /\ rpGotCtlC = FALSE
    /\ rpSent = 0
    /\ rpInFlight = 0
    /\ rpEvents = <<>>
    /\ rpOther = 0
    /\ acknowledgementRx_m = 0
    /\ rejectedMsgRx_m = 0

rpMainVars == <<rpMain, rpLoop, rpSent, rpInFlight>>
rpCbVars == <<rpEvents, rpOther, acknowledgementRx_m, rejectedMsgRx_m>>

\* the session events that answer a Guaranteed message
RpResponses == {"ACKNOWLEDGEMENT", "REJECTED_MSG_ERROR"}
\* session events of the other cases of the callback's switch
RpOtherTypes == {"CAN_SEND", "REPUBLISH_UNACKED_MESSAGES", "DOWN_ERROR"}

\* for ( loop = 0; ( loop < commandOpts.numMsgsToSend ) && !gotCtlC; loop++ )
RpLoopTest ==
    /\ rpMain = "loopTest"
    /\ rpMain' = IF rpLoop < rpNumMsgs /\ ~rpGotCtlC THEN "alloc" ELSE "afterLoop"
    /\ UNCHANGED <<rpNumMsgs, rpGotCtlC, rpLoop, rpSent, rpInFlight>>
    /\ UNCHANGED rpCbVars
    /\ UNCHANGED rpOthers

\* solClient_msg_alloc, solClient_msg_setDeliveryMode,
\* solClient_msg_setBinaryAttachment, solClient_msg_setDestination: on an
\* error, goto sessionConnected
RpBuild ==
    /\ rpMain = "alloc"
    /\ \E ok \in BOOLEAN : rpMain' = IF ok THEN "send" ELSE "sessionConnected"
    /\ UNCHANGED <<rpNumMsgs, rpGotCtlC, rpLoop, rpSent, rpInFlight>>
    /\ UNCHANGED rpCbVars
    /\ UNCHANGED rpOthers

\* solClient_session_sendMsg; on an error, break
RpSend ==
    /\ rpMain = "send"
    /\ \E ok \in BOOLEAN :
         IF ok THEN /\ rpSent' = rpSent + 1
                    /\ rpInFlight' = rpInFlight + 1
                    /\ rpMain' = "free"
               ELSE /\ rpMain' = "afterLoop"
                    /\ UNCHANGED <<rpSent, rpInFlight>>
    /\ UNCHANGED <<rpNumMsgs, rpGotCtlC, rpLoop>>
    /\ UNCHANGED rpCbVars
    /\ UNCHANGED rpOthers

\* solClient_msg_free; on an error, break.  Then printf ( "Sent %d\n" ),
\* sleepInSec ( 1 ) and loop++.
RpFree ==
    /\ rpMain = "free"
    /\ \E ok \in BOOLEAN :
         IF ok THEN /\ rpLoop' = rpLoop + 1
                    /\ rpMain' = "loopTest"
               ELSE /\ rpMain' = "afterLoop"
                    /\ UNCHANGED rpLoop
    /\ UNCHANGED <<rpNumMsgs, rpGotCtlC, rpSent, rpInFlight>>
    /\ UNCHANGED rpCbVars
    /\ UNCHANGED rpOthers

\* if ( gotCtlC ) printf ...; sleepInSec ( 1 )
RpAfterLoop ==
    /\ rpMain = "afterLoop"
    /\ rpMain' = "sessionConnected"
    /\ UNCHANGED <<rpNumMsgs, rpGotCtlC, rpLoop, rpSent, rpInFlight>>
    /\ UNCHANGED rpCbVars
    /\ UNCHANGED rpOthers

\* sessionConnected: solClient_session_disconnect.  Nothing is dispatched to
\* the session's callback afterwards: what the broker has not answered, and
\* what is not yet dispatched, is never counted.
RpDisconnect ==
    /\ rpMain = "sessionConnected"
    /\ rpMain' = "verify"
    /\ UNCHANGED <<rpNumMsgs, rpGotCtlC, rpLoop, rpSent, rpInFlight>>
    /\ UNCHANGED rpCbVars
    /\ UNCHANGED rpOthers

\* the two tests of pubInfo after the disconnect, solClient_cleanup, return 0
RpVerify ==
    /\ rpMain = "verify"
    /\ rpMain' = "done"
    /\ UNCHANGED <<rpNumMsgs, rpGotCtlC, rpLoop, rpSent, rpInFlight>>
    /\ UNCHANGED rpCbVars
    /\ UNCHANGED rpOthers

\* the signal handler sets gotCtlC
RpCtlC ==
    /\ ~rpGotCtlC
    /\ rpMain \notin {"verify", "done"}
    /\ rpGotCtlC' = TRUE
    /\ UNCHANGED <<rpNumMsgs, rpMain, rpLoop, rpSent, rpInFlight>>
    /\ UNCHANGED rpCbVars
    /\ UNCHANGED rpOthers

\* the session is connected: between the connect and the return of
\* solClient_session_disconnect
RpConnected == rpMain \notin {"off", "verify", "done"}

\* the broker accepts or rejects one outstanding Guaranteed message and the
\* library raises the event
RpBrokerRespond ==
    /\ RpConnected
    /\ rpInFlight > 0
    /\ rpInFlight' = rpInFlight - 1
    /\ \E type \in RpResponses : rpEvents' = Append(rpEvents, type)
    /\ UNCHANGED <<rpNumMsgs, rpGotCtlC, rpMain, rpLoop, rpSent, rpOther,
                   acknowledgementRx_m, rejectedMsgRx_m>>
    /\ UNCHANGED rpOthers

\* the session raises an event of another type
RpOtherEvent ==
    /\ RpConnected
    /\ rpOther < MaxOtherEvents
    /\ rpOther' = rpOther + 1
    /\ \E type \in RpOtherTypes : rpEvents' = Append(rpEvents, type)
    /\ UNCHANGED <<rpNumMsgs, rpGotCtlC, acknowledgementRx_m, rejectedMsgRx_m>>
    /\ UNCHANGED rpMainVars
    /\ UNCHANGED rpOthers

\* a callback that does not count the rejections
RpCountedAcksOnly(type) == IF type = "ACKNOWLEDGEMENT" THEN <<1, 0>> ELSE <<0, 0>>

\* the switch of replication_eventCallback: what an event adds to
\* acknowledgementRx_m and to rejectedMsgRx_m
RpCounted(type) ==
    IF type = "ACKNOWLEDGEMENT" THEN <<1, 0>>
    ELSE IF type = "REJECTED_MSG_ERROR" THEN <<0, 1>>
    ELSE <<0, 0>>

\* replication_eventCallback, on the context thread
replication_eventCallback ==
    /\ RpConnected
    /\ rpEvents # <<>>
    /\ acknowledgementRx_m' = acknowledgementRx_m + RpCounted(Head(rpEvents))[1]
    /\ rejectedMsgRx_m' = rejectedMsgRx_m + RpCounted(Head(rpEvents))[2]
    /\ rpEvents' = Tail(rpEvents)
    /\ UNCHANGED <<rpNumMsgs, rpGotCtlC, rpOther>>
    /\ UNCHANGED rpMainVars
    /\ UNCHANGED rpOthers

RpNext ==
    \/ RpLoopTest
    \/ RpBuild
    \/ RpSend
    \/ RpFree
    \/ RpAfterLoop
    \/ RpDisconnect
    \/ RpVerify
    \/ RpCtlC
    \/ RpBrokerRespond
    \/ RpOtherEvent
    \/ replication_eventCallback

InitRP == RpInit /\ FcIdle /\ AfIdle /\ AkIdle /\ TtIdle /\ PxIdle /\ NlIdle /\ TdIdle /\ TxIdle /\ MrIdle /\ CrIdle /\ PtIdle /\ CnIdle /\ RqIdle /\ RlIdle /\ QpIdle /\ PmIdle /\ PuIdle

SpecRP == InitRP /\ [][RpNext]_vars

\* the responses raised and not yet given to the callback
RpQueued == Cardinality({k \in 1..Len(rpEvents) : rpEvents[k] \in RpResponses})

GroupSize == 10

\* main() has set msgNum_s from the command line and started pubThread;
\* txCount = 0, groupCount = 0
PtInit ==
    /\ ptMain = "prepare"
    /\ msgNum_s \in 1..MaxNumMsgs
    /\ exitEarly_s = 0
    /\ txCount = 0
    /\ groupCount = 0
    /\ sendRc = "none"
    /\ ptFailures = 0

\* malloc of the payload, solClient_msg_alloc, solClient_msg_setBinaryAttachmentPtr,
\* solClient_msg_setTopicPtr, solClient_msg_setDeliveryMode: on an error the
\* thread logs, releases what it holds and returns
PtPrepare ==
    /\ ptMain = "prepare"
    /\ \E ok \in BOOLEAN : ptMain' = IF ok THEN "loopTest" ELSE "returned"
    /\ UNCHANGED <<msgNum_s, exitEarly_s, txCount, groupCount, sendRc, ptFailures>>
    /\ UNCHANGED ptOthers

\* while ( ( txCount < msgNum_s ) && ( !exitEarly_s ) )
PtLoopTest ==
    /\ ptMain = "loopTest"
    /\ ptMain' = IF txCount < msgNum_s /\ exitEarly_s = 0 THEN "send" ELSE "release"
    /\ UNCHANGED <<msgNum_s, exitEarly_s, txCount, groupCount, sendRc, ptFailures>>
    /\ UNCHANGED ptOthers

\* if ( sendRc != SOLCLIENT_OK ) { log a warning } else { txCount++;
\* groupCount++; if ( groupCount >= groupSize ) { groupCount = 0; pace } }
PtAfterSend(rc) ==
    IF rc # "OK"
      THEN UNCHANGED <<txCount, groupCount>>
      ELSE /\ txCount' = txCount + 1
           /\ groupCount' = IF groupCount + 1 >= GroupSize THEN 0 ELSE groupCount + 1

\* sendRc = solClient_session_sendMsg ( session_p, msg_p ) and the rest of
\* the loop body
PtSend ==
    /\ ptMain = "send"
    /\ \E rc \in {"OK", "FAIL"} :
         /\ rc = "FAIL" => ptFailures < MaxSendFailures
         /\ sendRc' = rc
         /\ ptFailures' = IF rc = "FAIL" THEN ptFailures + 1 ELSE ptFailures
         /\ PtAfterSend(rc)
    /\ ptMain' = "loopTest"
    /\ UNCHANGED <<msgNum_s, exitEarly_s>>
    /\ UNCHANGED ptOthers

\* solClient_msg_free, free ( binary_p ), the printf of the rate, return
PtRelease ==
    /\ ptMain = "release"
    /\ ptMain' = "returned"
    /\ UNCHANGED <<msgNum_s, exitEarly_s, txCount, groupCount, sendRc, ptFailures>>
    /\ UNCHANGED ptOthers

\* sigHandler: the first SIGINT sets exitEarly_s, the second one calls exit ( 0 )
PtSigHandler ==
    /\ ptMain \notin {"returned", "exited"}
    /\ IF exitEarly_s = 0
         THEN exitEarly_s' = 1 /\ UNCHANGED ptMain
         ELSE ptMain' = "exited" /\ UNCHANGED exitEarly_s
    /\ UNCHANGED <<msgNum_s, txCount, groupCount, sendRc, ptFailures>>
    /\ UNCHANGED ptOthers

PtNext ==
    \/ PtPrepare
    \/ PtLoopTest
    \/ PtSend
    \/ PtRelease
    \/ PtSigHandler

InitPT == PtInit /\ FcIdle /\ AfIdle /\ AkIdle /\ TtIdle /\ PxIdle /\ NlIdle /\ TdIdle /\ TxIdle /\ MrIdle /\ CrIdle /\ RpIdle /\ CnIdle /\ RqIdle /\ RlIdle /\ QpIdle /\ PmIdle /\ PuIdle

SpecPT == InitPT /\ [][PtNext]_vars

\* C22: application code does not re-attempt an operation that failed:
\* pubThread does not come to call solClient_session_sendMsg again when its
\* previous call returned an error.
C22_NoRetryByApplication == ~(ptMain = "send" /\ sendRc = "FAIL")

(***************************************************************************)
(* common.c: common_createAndConnectSession, called by an example's main() *)
(***************************************************************************)
\* the command options the examples accept, as far as they reach the session
\* properties: is a host given, is compression on, is a VPN given, is GSS used
CnOptions == [targetHost : BOOLEAN, enableCompression : BOOLEAN, vpn : BOOLEAN,
              useGSS : BOOLEAN]

\* main() has parsed its options, initialized the API and created the
\* Context; the host it was given answers or does not
CnInit ==
    /\ cnMain = "configure"
    /\ cnOpts \in CnOptions
    /\ cnReachable \in BOOLEAN
    /\ sessionProps = CnNoProps
    /\ cnSession = FALSE
    /\ cnRetriesLeft = 0
    /\ cnAttempts = 0
    /\ cnRc = "none"

\* session properties that ask for connect retries without end
CnSessionPropsRetryForever(opts) ==
    [host |-> opts.targetHost,
     compression |-> IF opts.enableCompression THEN "9" ELSE "0",
     connectRetries |-> "-1",
     reconnectRetries |-> "3",
     vpn |-> opts.vpn,
     gss |-> opts.useGSS]

\* the property list common_createAndConnectSession builds: HOST when a host
\* is given, COMPRESSION_LEVEL "9" or "0", CONNECT_RETRIES "3",
\* RECONNECT_RETRIES "3", VPN_NAME when given, the GSS scheme when asked for.
\* CONNECT_BLOCKING is not in the list: the connect call blocks.
CnSessionProps(opts) ==
    [host |-> opts.targetHost,
     compression |-> IF opts.enableCompression THEN "9" ELSE "0",
     connectRetries |-> "3",
     reconnectRetries |-> "3",
     vpn |-> opts.vpn,
     gss |-> opts.useGSS]

\* the number a retry property's string stands for; -1 is "for ever"
CnRetries(str) ==
    CASE str = "-1" -> -1
      [] str = "0" -> 0
      [] str = "3" -> 3
      [] OTHER -> 0

\* sessionFuncInfo and sessionProps are filled in
CnConfigure ==
    /\ cnMain = "configure"
    /\ sessionProps' = CnSessionProps(cnOpts)
    /\ cnMain' = "create"
    /\ UNCHANGED <<cnOpts, cnReachable, cnSession, cnRetriesLeft, cnAttempts, cnRc>>
    /\ UNCHANGED cnOthers

\* solClient_session_create; on an error, common_handleError and return rc
CnCreateSession ==
    /\ cnMain = "create"
    /\ \E ok \in BOOLEAN :
         IF ok THEN /\ cnSession' = TRUE
                    /\ cnRetriesLeft' = CnRetries(sessionProps.connectRetries)
                    /\ cnMain' = "connect"
                    /\ UNCHANGED cnRc
               ELSE /\ cnRc' = "FAIL"
                    /\ cnMain' = "returned"
                    /\ UNCHANGED <<cnSession, cnRetriesLeft>>
    /\ UNCHANGED <<cnOpts, cnReachable, sessionProps, cnAttempts>>
    /\ UNCHANGED cnOthers

\* solClient_session_connect, blocking: one connection attempt of the
\* transport.  An attempt to a host that does not answer fails when its timer
\* runs out; after a failed attempt the transport tries again while retries
\* are left, and otherwise the call returns the failure.
CnConnectAttempt ==
    /\ cnMain = "connect"
    /\ \E ok \in (IF cnReachable THEN BOOLEAN ELSE {FALSE}) :
         IF ok
           THEN /\ cnRc' = "OK"
                /\ cnMain' = "returned"
                /\ UNCHANGED cnRetriesLeft
           ELSE IF cnRetriesLeft = 0
                  THEN /\ cnRc' = "FAIL"
                       /\ cnMain' = "returned"
                       /\ UNCHANGED cnRetriesLeft
                  ELSE /\ cnRetriesLeft' = IF cnRetriesLeft > 0 THEN cnRetriesLeft - 1
                                           ELSE cnRetriesLeft
                       /\ UNCHANGED <<cnRc, cnMain>>
    /\ cnAttempts' = IF cnAttempts < MaxAttempts THEN cnAttempts + 1 ELSE cnAttempts
    /\ UNCHANGED <<cnOpts, cnReachable, sessionProps, cnSession>>
    /\ UNCHANGED cnOthers

\* back in main(): if ( rc != SOLCLIENT_OK ) { common_handleError; goto cleanup }
CnCallerOnReturn ==
    /\ cnMain = "returned"
    /\ cnMain' = IF cnRc # "OK" THEN "cleanup" ELSE "connected"
    /\ UNCHANGED <<cnOpts, cnReachable, sessionProps, cnSession, cnRetriesLeft,
                   cnAttempts, cnRc>>
    /\ UNCHANGED cnOthers

\* the example does its work on the connected session and disconnects
CnCallerWork ==
    /\ cnMain = "connected"
    /\ cnMain' = "cleanup"
    /\ UNCHANGED <<cnOpts, cnReachable, sessionProps, cnSession, cnRetriesLeft,
                   cnAttempts, cnRc>>
    /\ UNCHANGED cnOthers

\* cleanup: solClient_cleanup, which destroys what is left; return 0
CnCleanup ==
    /\ cnMain = "cleanup"
    /\ cnSession' = FALSE
    /\ cnMain' = "done"
    /\ UNCHANGED <<cnOpts, cnReachable, sessionProps, cnRetriesLeft, cnAttempts, cnRc>>
    /\ UNCHANGED cnOthers

CnNext ==
    \/ CnConfigure
    \/ CnCreateSession
    \/ CnConnectAttempt
    \/ CnCallerOnReturn
    \/ CnCallerWork
    \/ CnCleanup

InitCN == CnInit /\ FcIdle /\ AfIdle /\ AkIdle /\ TtIdle /\ PxIdle /\ NlIdle /\ TdIdle /\ TxIdle /\ MrIdle /\ CrIdle /\ RpIdle /\ PtIdle /\ RqIdle /\ RlIdle /\ QpIdle /\ PmIdle /\ PuIdle

SpecCN == InitCN /\ [][CnNext]_vars

\* main() runs on, and every connection attempt ends: it succeeds or its
\* timer runs out
SpecCNFair == SpecCN /\ WF_vars(CnNext)

\* C23: when the host does not answer, the blocking connect of
\* common_createAndConnectSession gives up after the first attempt and the
\* three retries of CONNECT_RETRIES and returns a failure, and the example
\* then goes through its cleanup and returns; it never keeps trying.
C23_UnreachableHostFailsAndExits ==
    /\ (~cnReachable /\ cnMain = "configure") ~> (cnMain = "done" /\ cnRc = "FAIL")
    /\ []((~cnReachable /\ cnMain = "returned" /\ cnSession)
            => cnRc = "FAIL" /\ cnRetriesLeft = 0 /\ cnAttempts = 4)
    /\ [](cnMain = "connect" => cnRetriesLeft \in 0..3 /\ cnAttempts + cnRetriesLeft = 3)
    /\ [](~cnReachable => cnMain # "connected")

\* the example has returned after the transport gave up on a host that does
\* not answer
C23_Witness ==
    /\ cnMain = "done"
    /\ ~cnReachable
    /\ cnRc = "FAIL"
    /\ cnAttempts = 4
    /\ cnRetriesLeft = 0

\* the entries of the publish loop so far: 0 .. loop, each sent
AkSentSoFar == {i \in AkIds : i <= loop}

\* C31: when a housekeeping pass of adPubAck ends, the list holds exactly the
\* sent entries whose acknowledgement or rejection the callback has not yet
\* marked, in the order they were sent; every entry marked isAcked has been
\* unlinked and freed together with its message.
C31_ListIsOutstandingAfterPass ==
    [][(akMain = "hkTest" /\ akMain' = "loopTest") =>
          LET list == AkListFrom(msgMemoryListHead_p')
          IN  /\ list = {i \in AkSentSoFar : ~isAcked'[i]}
              /\ \A i \in list : next_p'[i] # NULL => next_p'[i] = i + 1
              /\ \A i \in AkSentSoFar :
                    isAcked'[i] => /\ i \notin akLive'
                                   /\ akMsg'[i] = "freed"
                                   /\ akFreedBy'[i] = "housekeeping"]_vars

\* a pass has ended with entry 0 freed and entry 1, sent and not answered,
\* alone in the list
C31_Witness ==
    /\ akMain = "loopTest"
    /\ loop = 2
    /\ akFreedBy[0] = "housekeeping"
    /\ msgMemoryListHead_p = 1
    /\ msgMemoryListTail_p = 1
    /\ ~isAcked[1]
    /\ akInFlight = <<1>>

\* no message of messageReplay is on its way and the callback is not running:
\* nothing will be received any more
MrNothingToCome == mrWire = 0 /\ mrTransit = 0 /\ mrCb = "idle"

\* C32: the main thread of messageReplay is never left in its wait loop with
\* the counter below 100 and no message that could still arrive: it reaches
\* its cleanup also when the first send, or a re-send in the callback, failed.
C32_NeverStuckInWait ==
    ~(mrMain = "wait" /\ msgReceived_s < MaxReceived /\ MrNothingToCome)

(***************************************************************************)
(* RRGuaranteedRequester.c                                                 *)
(***************************************************************************)
\* the operations of RR_operation_t in the order of the switch statements,
\* from firstOperation to lastOperation
RrOperations == <<"plusOperation", "minusOperation", "timesOperation",
                  "divideOperation">>
lastOperation == Len(RrOperations)

\* waitInSec = 10
WaitSeconds == 10

\* the session is connected, the reply flow on the temporary queue is bound
\* and the request message allocated; operation = firstOperation
RqInit ==
    /\ rqMain = "loopTest"
    /\ operation = 1
    /\ replyReceived = FALSE
    /\ waitInSec = WaitSeconds
    /\ rqGotCtlC = FALSE
    /\ rqFlow = TRUE
    /\ rqRequests = 0
    /\ rqReplies = 0
    /\ rqTimeoutLogged = FALSE

rqNet == <<rqFlow, rqRequests, rqReplies>>

\* while ( !gotCtlC && operation <= lastOperation + 1 )
RqLoopTest ==
    /\ rqMain = "loopTest"
    /\ rqMain' = IF ~rqGotCtlC /\ operation <= lastOperation + 1 THEN "build"
                 ELSE "freeMsg"
    /\ UNCHANGED <<operation, replyReceived, waitInSec, rqGotCtlC, rqNet, rqTimeoutLogged>>
    /\ UNCHANGED rqOthers

\* requestInfo.replyReceived = FALSE; waitInSec = 10; the request is reset and
\* built: on an error goto freeMsg, from solClient_msg_setDestination goto
\* cleanupFlow
RqBuild ==
    /\ rqMain = "build"
    /\ replyReceived' = FALSE
    /\ waitInSec' = WaitSeconds
    /\ \E to \in {"send", "freeMsg", "cleanupFlow"} : rqMain' = to
    /\ UNCHANGED <<operation, rqGotCtlC, rqNet, rqTimeoutLogged>>
    /\ UNCHANGED rqOthers

\* solClient_session_sendMsg ( session_p, msg_p ); on an error goto freeMsg
RqSend ==
    /\ rqMain = "send"
    /\ \E ok \in BOOLEAN :
         IF ok THEN rqRequests' = rqRequests + 1 /\ rqMain' = "waitTest"
               ELSE UNCHANGED rqRequests /\ rqMain' = "freeMsg"
    /\ UNCHANGED <<operation, replyReceived, waitInSec, rqGotCtlC, rqFlow, rqReplies,
                   rqTimeoutLogged>>
    /\ UNCHANGED rqOthers

\* while ( ( !requestInfo.replyReceived ) && ( !gotCtlC ) && ( waitInSec > 0 ) )
RqWaitGoesOn == ~replyReceived /\ ~rqGotCtlC /\ waitInSec > 0

\* the test of the wait loop
RqWaitTest ==
    /\ rqMain = "waitTest"
    /\ rqMain' = IF RqWaitGoesOn THEN "sleep" ELSE "check"
    /\ UNCHANGED <<operation, replyReceived, waitInSec, rqGotCtlC, rqNet, rqTimeoutLogged>>
    /\ UNCHANGED rqOthers

\* sleepInSec ( 1 ); waitInSec--
RqSleep ==
    /\ rqMain = "sleep"
    /\ waitInSec' = waitInSec - 1
    /\ rqMain' = "waitTest"
    /\ UNCHANGED <<operation, replyReceived, rqGotCtlC, rqNet, rqTimeoutLogged>>
    /\ UNCHANGED rqOthers

\* if ( waitInSec == 0 ) { log "Request message timeout."; goto freeMsg }
\* operation++
RqCheck ==
    /\ rqMain = "check"
    /\ IF waitInSec = 0
         THEN /\ rqTimeoutLogged' = TRUE
              /\ rqMain' = "freeMsg"
              /\ UNCHANGED operation
         ELSE /\ operation' = operation + 1
              /\ rqMain' = "loopTest"
              /\ UNCHANGED rqTimeoutLogged
    /\ UNCHANGED <<replyReceived, waitInSec, rqGotCtlC, rqNet>>
    /\ UNCHANGED rqOthers

\* freeMsg: solClient_msg_free
RqFreeMsg ==
    /\ rqMain = "freeMsg"
    /\ rqMain' = "cleanupFlow"
    /\ UNCHANGED <<operation, replyReceived, waitInSec, rqGotCtlC, rqNet, rqTimeoutLogged>>
    /\ UNCHANGED rqOthers

\* cleanupFlow: solClient_flow_destroy; sessionConnected:
\* solClient_session_disconnect; cleanup: solClient_cleanup; return 0
RqCleanup ==
    /\ rqMain = "cleanupFlow"
    /\ rqFlow' = FALSE
    /\ rqMain' = "done"
    /\ UNCHANGED <<operation, replyReceived, waitInSec, rqGotCtlC, rqRequests, rqReplies,
                   rqTimeoutLogged>>
    /\ UNCHANGED rqOthers

\* the signal handler sets gotCtlC
RqCtlC ==
    /\ ~rqGotCtlC
    /\ rqMain # "done"
    /\ rqGotCtlC' = TRUE
    /\ UNCHANGED <<rqMain, operation, replyReceived, waitInSec, rqNet, rqTimeoutLogged>>
    /\ UNCHANGED rqOthers

\* the replier answers a request: its reply goes to the temporary queue of
\* the requester's flow
RqReplierAnswers ==
    /\ rqRequests > 0
    /\ rqRequests' = rqRequests - 1
    /\ rqReplies' = rqReplies + 1
    /\ UNCHANGED <<rqMain, operation, replyReceived, waitInSec, rqGotCtlC, rqFlow,
                   rqTimeoutLogged>>
    /\ UNCHANGED rqOthers

\* flowMsgCallbackFunc of the requester, on the context thread:
\* requestInfo_p->replyReceived = TRUE, then the reply is read and printed
RqFlowMsgCallback ==
    /\ rqFlow
    /\ rqReplies > 0
    /\ rqReplies' = rqReplies - 1
    /\ replyReceived' = TRUE
    /\ UNCHANGED <<rqMain, operation, waitInSec, rqGotCtlC, rqFlow, rqRequests,
                   rqTimeoutLogged>>
    /\ UNCHANGED rqOthers

RqNext ==
    \/ RqLoopTest
    \/ RqBuild
    \/ RqSend
    \/ RqWaitTest
    \/ RqSleep
    \/ RqCheck
    \/ RqFreeMsg
    \/ RqCleanup
    \/ RqCtlC
    \/ RqReplierAnswers
    \/ RqFlowMsgCallback

InitRQ == RqInit /\ FcIdle /\ AfIdle /\ AkIdle /\ TtIdle /\ PxIdle /\ NlIdle /\ TdIdle /\ TxIdle /\ MrIdle /\ CrIdle /\ RpIdle /\ PtIdle /\ CnIdle /\ RlIdle /\ QpIdle /\ PmIdle /\ PuIdle

SpecRQ == InitRQ /\ [][RqNext]_vars

\* C33: a request of RRGuaranteedRequester whose reply the callback has marked
\* before the wait loop makes its last test is not timed out: main() is never
\* at the test of the wait loop with replyReceived set and waitInSec = 0, from
\* where it leaves the loop and logs "Request message timeout".
C33_TimeoutOnlyWithoutReply ==
    ~(rqMain = "waitTest" /\ replyReceived /\ waitInSec = 0)

(***************************************************************************)
(* RRGuaranteedReplier.c: flowMsgCallbackFunc                              *)
(***************************************************************************)
\* how far the stream of a request can be read: not at all, up to the
\* operation, up to operand1, or completely
RlParses == {"noStream", "noOperation", "noOperand1", "noOperand2", "ok"}

\* the requests that can reach the replier's queue: with or without a
\* reply-to, readable or not, with an operation of RR_operation_t or the
\* value after the last one, operands 9 and 5 as the requester sends them, or
\* a divisor of 0
RlRequests ==
    [replyTo : {"none", "#P2P/QTMP/requester"},
     parse : RlParses,
     operation : 1..(lastOperation + 1),
     operand1 : {9},
     operand2 : {5, 0}]

\* the flow is bound and the callback waits for a request
RlInit ==
    /\ rlCb = "idle"
    /\ rlRequest = RlNoRequest
    /\ resultOk = FALSE
    /\ rlResult = RlNoResult
    /\ rlReplyMsg = "none"
    /\ rlContent = RlNoContent
    /\ rlSent = <<>>
    /\ rlFailed = FALSE

\* the name of an operation value
RlOperationName(op) == IF op \in 1..lastOperation THEN RrOperations[op] ELSE "unknown"

\* a switch that also divides by zero
RlCalculateAnyDivisor(req) ==
    LET name == RlOperationName(req.operation)
        a == req.operand1
        b == req.operand2
    IN  CASE name = "plusOperation" -> [ok |-> TRUE, result |-> [num |-> a + b, den |-> 1]]
          [] name = "minusOperation" -> [ok |-> TRUE, result |-> [num |-> a - b, den |-> 1]]
          [] name = "timesOperation" -> [ok |-> TRUE, result |-> [num |-> a * b, den |-> 1]]
          [] name = "divideOperation" -> [ok |-> TRUE, result |-> [num |-> a, den |-> b]]
          [] OTHER -> [ok |-> FALSE, result |-> RlNoResult]

\* switch ( operation ): the result as a fraction and resultOk; a division by
\* 0 and an unknown operation leave resultOk FALSE
RlCalculate(req) ==
    LET name == RlOperationName(req.operation)
        a == req.operand1
        b == req.operand2
    IN  CASE name = "plusOperation" -> [ok |-> TRUE, result |-> [num |-> a + b, den |-> 1]]
          [] name = "minusOperation" -> [ok |-> TRUE, result |-> [num |-> a - b, den |-> 1]]
          [] name = "timesOperation" -> [ok |-> TRUE, result |-> [num |-> a * b, den |-> 1]]
          [] name = "divideOperation" ->
                IF b # 0 THEN [ok |-> TRUE, result |-> [num |-> a, den |-> b]]
                         ELSE [ok |-> FALSE, result |-> RlNoResult]
          [] OTHER -> [ok |-> FALSE, result |-> RlNoResult]

\* the context thread calls flowMsgCallbackFunc with a request:
\* resultOk = FALSE, solClient_msg_getReplyTo; without a reply-to, return
RlGetReplyTo ==
    /\ rlCb \in {"idle", "returned"}
    /\ \E req \in RlRequests :
         /\ rlRequest' = req
         /\ rlCb' = IF req.replyTo = "none" THEN "returned" ELSE "parse"
    /\ resultOk' = FALSE
    /\ rlResult' = RlNoResult
    /\ rlReplyMsg' = "none"
    /\ rlContent' = RlNoContent
    /\ rlSent' = <<>>
    /\ rlFailed' = FALSE
    /\ UNCHANGED rlOthers

\* the stream is read and the calculation done; a read that fails goes to
\* createReply with resultOk FALSE
RlParseAndCalculate ==
    /\ rlCb = "parse"
    /\ IF rlRequest.parse = "ok"
         THEN /\ resultOk' = RlCalculate(rlRequest).ok
              /\ rlResult' = RlCalculate(rlRequest).result
         ELSE UNCHANGED <<resultOk, rlResult>>
    /\ rlCb' = "alloc"
    /\ UNCHANGED <<rlRequest, rlReplyMsg, rlContent, rlSent, rlFailed>>
    /\ UNCHANGED rlOthers

\* createReply: solClient_msg_alloc ( &replyMsg_p ); on an error, return
RlAlloc ==
    /\ rlCb = "alloc"
    /\ \E ok \in BOOLEAN :
         IF ok THEN rlReplyMsg' = "alloc" /\ rlCb' = "build" /\ UNCHANGED rlFailed
               ELSE rlFailed' = TRUE /\ rlCb' = "returned" /\ UNCHANGED rlReplyMsg
    /\ UNCHANGED <<rlRequest, resultOk, rlResult, rlContent, rlSent>>
    /\ UNCHANGED rlOthers

\* the reply's stream: addBoolean ( resultOk ), and addDouble ( result ) if
\* resultOk; delivery mode and destination; on an error, goto freeMsg
RlBuild ==
    /\ rlCb = "build"
    /\ \E ok \in BOOLEAN :
         IF ok THEN /\ rlContent' = [status |-> resultOk,
                                     result |-> IF resultOk THEN rlResult ELSE RlNoResult]
                    /\ rlCb' = "send"
                    /\ UNCHANGED rlFailed
               ELSE /\ rlFailed' = TRUE
                    /\ rlCb' = "freeMsg"
                    /\ UNCHANGED rlContent
    /\ UNCHANGED <<rlRequest, resultOk, rlResult, rlReplyMsg, rlSent>>
    /\ UNCHANGED rlOthers

\* solClient_session_sendMsg ( session_p, replyMsg_p ); freeMsg comes next
\* either way
RlSend ==
    /\ rlCb = "send"
    /\ \E ok \in BOOLEAN :
         IF ok THEN /\ rlSent' = Append(rlSent, [dest |-> rlRequest.replyTo,
                                                 content |-> rlContent])
                    /\ UNCHANGED rlFailed
               ELSE /\ rlFailed' = TRUE
                    /\ UNCHANGED rlSent
    /\ rlCb' = "freeMsg"
    /\ UNCHANGED <<rlRequest, resultOk, rlResult, rlReplyMsg, rlContent>>
    /\ UNCHANGED rlOthers

\* freeMsg: solClient_msg_free ( &replyMsg_p ); return SOLCLIENT_CALLBACK_OK
RlFreeMsg ==
    /\ rlCb = "freeMsg"
    /\ rlReplyMsg' = IF rlReplyMsg = "alloc" THEN "freed" ELSE "freedTwice"
    /\ rlCb' = "returned"
    /\ UNCHANGED <<rlRequest, resultOk, rlResult, rlContent, rlSent, rlFailed>>
    /\ UNCHANGED rlOthers

RlNext ==
    \/ RlGetReplyTo
    \/ RlParseAndCalculate
    \/ RlAlloc
    \/ RlBuild
    \/ RlSend
    \/ RlFreeMsg

InitRL == RlInit /\ FcIdle /\ AfIdle /\ AkIdle /\ TtIdle /\ PxIdle /\ NlIdle /\ TdIdle /\ TxIdle /\ MrIdle /\ CrIdle /\ RpIdle /\ PtIdle /\ CnIdle /\ RqIdle /\ QpIdle /\ PmIdle /\ PuIdle

SpecRL == InitRL /\ [][RlNext]_vars

\* the operation of a request is one the replier can carry out
RlValid(req) ==
    /\ req.parse = "ok"
    /\ req.operation \in 1..lastOperation
    /\ ~(RrOperations[req.operation] = "divideOperation" /\ req.operand2 = 0)

\* C34: the replier's callback never sends more than one reply for a request
\* and never leaves its reply message allocated.  When it has returned from
\* a request with a reply-to, and no call on the reply message failed, it has
\* sent one reply to that reply-to and freed the reply message; the reply has
\* status TRUE and the result if the operation is valid, and status FALSE and
\* no result if the request cannot be read, the operation is unknown or the
\* divisor is 0.  From a request without a reply-to it returns without a
\* reply.
C34_OneReplyPerRequest ==
    /\ Len(rlSent) <= 1
    /\ rlReplyMsg # "freedTwice"
    /\ rlCb = "returned" =>
          /\ rlReplyMsg # "alloc"
          /\ rlRequest.replyTo = "none" => rlSent = <<>> /\ rlReplyMsg = "none"
          /\ (rlRequest.replyTo # "none" /\ ~rlFailed) =>
                /\ Len(rlSent) = 1
                /\ rlReplyMsg = "freed"
                /\ rlSent[1].dest = rlRequest.replyTo
                /\ rlSent[1].content.status = RlValid(rlRequest)
                /\ RlValid(rlRequest) =>
                      LET r == rlSent[1].content.result
                          name == RrOperations[rlRequest.operation]
                          a == rlRequest.operand1
                          b == rlRequest.operand2
                      IN  /\ name = "plusOperation" => r.num = (a + b) * r.den
                          /\ name = "minusOperation" => r.num = (a - b) * r.den
                          /\ name = "timesOperation" => r.num = (a * b) * r.den
                          /\ name = "divideOperation" => r.num * b = a * r.den
                          /\ r.den # 0
                /\ ~RlValid(rlRequest) => rlSent[1].content.result = RlNoResult

\* the callback has answered a division by zero with a failure status
C34_Witness ==
    /\ rlCb = "returned"
    /\ rlRequest.replyTo # "none"
    /\ rlRequest.parse = "ok"
    /\ rlRequest.operation = lastOperation
    /\ rlRequest.operand2 = 0
    /\ Len(rlSent) = 1
    /\ ~rlSent[1].content.status
    /\ rlReplyMsg = "freed"

(***************************************************************************)
(* queueProvision.c                                                        *)
(***************************************************************************)
\* the session is connected and capable of endpoint management;
\* endpointProvisioned = FALSE, and flow_p is declared without a value
QpInit ==
    /\ qpMain = "provision"
    /\ usingDurable \in BOOLEAN
    /\ qpProvisioned = FALSE
    /\ qpFlow = "unassigned"
    /\ qpGotCtlC = FALSE
    /\ qpSent = 0
    /\ qpDestroyed = {}
    /\ qpQueue = "none"

\* if ( commandOpts.usingDurable ) solClient_session_endpointProvision: on
\* success endpointProvisioned = TRUE; on an error with error info, goto
\* sessionConnected; on an error without, main() goes on
QpProvision ==
    /\ qpMain = "provision"
    /\ IF usingDurable
         THEN \E outcome \in {"ok", "errorInfo", "noErrorInfo"} :
                /\ qpProvisioned' = (outcome = "ok")
                /\ qpQueue' = IF outcome = "ok" THEN "provisioned" ELSE qpQueue
                /\ qpMain' = IF outcome = "errorInfo" THEN "sessionConnected"
                             ELSE "flowProps"
         ELSE /\ qpMain' = "flowProps"
              /\ UNCHANGED <<qpProvisioned, qpQueue>>
    /\ UNCHANGED <<usingDurable, qpFlow, qpGotCtlC, qpSent, qpDestroyed>>
    /\ UNCHANGED qpOthers

\* the flow properties; for a temporary queue solClient_generateUUIDString,
\* on an error goto sessionConnected
QpFlowProps ==
    /\ qpMain = "flowProps"
    /\ IF usingDurable
         THEN qpMain' = "createFlow"
         ELSE \E ok \in BOOLEAN :
                qpMain' = IF ok THEN "createFlow" ELSE "sessionConnected"
    /\ UNCHANGED <<usingDurable, qpProvisioned, qpFlow, qpGotCtlC, qpSent, qpDestroyed, qpQueue>>
    /\ UNCHANGED qpOthers

\* solClient_session_createFlow ( ..., &flow_p, ... ); on an error goto
\* sessionConnected, flow_p being what it was
QpCreateFlow ==
    /\ qpMain = "createFlow"
    /\ \E ok \in BOOLEAN :
         IF ok THEN qpFlow' = "created" /\ qpMain' = "getDestination"
               ELSE UNCHANGED qpFlow /\ qpMain' = "sessionConnected"
    /\ UNCHANGED <<usingDurable, qpProvisioned, qpGotCtlC, qpSent, qpDestroyed, qpQueue>>
    /\ UNCHANGED qpOthers

\* solClient_flow_getDestination; on an error goto sessionConnected
QpGetDestination ==
    /\ qpMain = "getDestination"
    /\ \E ok \in BOOLEAN : qpMain' = IF ok THEN "loop" ELSE "sessionConnected"
    /\ UNCHANGED <<usingDurable, qpProvisioned, qpFlow, qpGotCtlC, qpSent, qpDestroyed, qpQueue>>
    /\ UNCHANGED qpOthers

\* while ( !gotCtlC ) { if ( sendQueueMessage ( ... ) != SOLCLIENT_OK ) break;
\* sleepInSec ( 1 ) }
QpLoop ==
    /\ qpMain = "loop"
    /\ IF qpGotCtlC
         THEN qpMain' = "sessionConnected" /\ UNCHANGED qpSent
         ELSE \E ok \in BOOLEAN :
                IF ok THEN /\ qpSent < MaxNumMsgs
                           /\ qpSent' = qpSent + 1
                           /\ UNCHANGED qpMain
                      ELSE /\ qpMain' = "sessionConnected"
                           /\ UNCHANGED qpSent
    /\ UNCHANGED <<usingDurable, qpProvisioned, qpFlow, qpGotCtlC, qpDestroyed, qpQueue>>
    /\ UNCHANGED qpOthers

\* sessionConnected: if ( endpointProvisioned ) solClient_flow_destroy (
\* &flow_p ), with flow_p whatever it is
QpSessionConnected ==
    /\ qpMain = "sessionConnected"
    /\ IF qpProvisioned
         THEN /\ qpDestroyed' = qpDestroyed \cup {qpFlow}
              /\ qpFlow' = IF qpFlow = "created" THEN "destroyed" ELSE qpFlow
              /\ qpMain' = "deprovision"
         ELSE /\ qpMain' = "disconnect"
              /\ UNCHANGED <<qpDestroyed, qpFlow>>
    /\ UNCHANGED <<usingDurable, qpProvisioned, qpGotCtlC, qpSent, qpQueue>>
    /\ UNCHANGED qpOthers

\* solClient_session_endpointDeprovision; an error is logged
QpDeprovision ==
    /\ qpMain = "deprovision"
    /\ \E ok \in BOOLEAN : qpQueue' = IF ok THEN "deprovisioned" ELSE qpQueue
    /\ qpMain' = "disconnect"
    /\ UNCHANGED <<usingDurable, qpProvisioned, qpFlow, qpGotCtlC, qpSent, qpDestroyed>>
    /\ UNCHANGED qpOthers

\* solClient_session_disconnect; cleanup: solClient_cleanup; return 0
QpDisconnect ==
    /\ qpMain = "disconnect"
    /\ qpMain' = "done"
    /\ UNCHANGED <<usingDurable, qpProvisioned, qpFlow, qpGotCtlC, qpSent, qpDestroyed, qpQueue>>
    /\ UNCHANGED qpOthers

\* the signal handler sets gotCtlC
QpCtlC ==
    /\ ~qpGotCtlC
    /\ qpMain # "done"
    /\ qpGotCtlC' = TRUE
    /\ UNCHANGED <<qpMain, usingDurable, qpProvisioned, qpFlow, qpSent, qpDestroyed, qpQueue>>
    /\ UNCHANGED qpOthers

QpNext ==
    \/ QpProvision
    \/ QpFlowProps
    \/ QpCreateFlow
    \/ QpGetDestination
    \/ QpLoop
    \/ QpSessionConnected
    \/ QpDeprovision
    \/ QpDisconnect
    \/ QpCtlC

InitQP == QpInit /\ FcIdle /\ AfIdle /\ AkIdle /\ TtIdle /\ PxIdle /\ NlIdle /\ TdIdle /\ TxIdle /\ MrIdle /\ CrIdle /\ RpIdle /\ PtIdle /\ CnIdle /\ RqIdle /\ RlIdle /\ PmIdle /\ PuIdle

SpecQP == InitQP /\ [][QpNext]_vars

\* C35: solClient_flow_destroy is called only on a flow that was created and
\* is not yet destroyed: queueProvision never hands it a flow_p that no
\* solClient_session_createFlow has assigned.
C35_DestroyOnlyCreatedFlow == qpDestroyed \subseteq {"created"}

(***************************************************************************)
(* perfTest.c: main() and its publisher threads                            *)
(***************************************************************************)
\* the session is connected; numThread comes from the command line, usePub_s
\* from the PUB_SUB_MODE argument
PmInit ==
    /\ pmMain = "start"
    /\ numThread \in 1..MaxThreads
    /\ usePub_s \in BOOLEAN
    /\ pmLoop = 0
    /\ pmThread = [t \in 0..(MaxThreads - 1) |-> "none"]
    /\ pmSession = "connected"
    /\ pmExitEarly = FALSE

\* if ( usePub_s ) for ( loop = 0; loop < numThread; loop++ ): startThread (
\* pubThread, session_p ); if it fails, goto sessionConnected.  After the
\* last one, loop = 0 for the second for.
PmStartThread ==
    /\ pmMain = "start"
    /\ IF usePub_s /\ pmLoop < numThread
         THEN \E ok \in BOOLEAN :
                IF ok THEN /\ pmThread' = [pmThread EXCEPT ![pmLoop] = "running"]
                           /\ pmLoop' = pmLoop + 1
                           /\ UNCHANGED pmMain
                      ELSE /\ pmMain' = "sessionConnected"
                           /\ UNCHANGED <<pmThread, pmLoop>>
         ELSE /\ pmMain' = IF usePub_s THEN "wait" ELSE "afterThreads"
              /\ pmLoop' = 0
              /\ UNCHANGED pmThread
    /\ UNCHANGED <<numThread, usePub_s, pmSession, pmExitEarly>>
    /\ UNCHANGED pmOthers

\* for ( loop = 0; loop < numThread; loop++ ) waitOnThread ( pubThreadHandle[loop] ):
\* the call returns when the thread has returned
PmWaitOnThread ==
    /\ pmMain = "wait"
    /\ IF pmLoop < numThread
         THEN /\ pmThread[pmLoop] = "returned"
              /\ pmThread' = [pmThread EXCEPT ![pmLoop] = "joined"]
              /\ pmLoop' = pmLoop + 1
              /\ UNCHANGED pmMain
         ELSE /\ pmMain' = "afterThreads"
              /\ UNCHANGED <<pmThread, pmLoop>>
    /\ UNCHANGED <<numThread, usePub_s, pmSession, pmExitEarly>>
    /\ UNCHANGED pmOthers

\* if ( exitEarly_s ) goto sessionConnected; the subscriber's wait, the
\* statistics; a timer call that fails goes to sessionCreated
PmAfterThreads ==
    /\ pmMain = "afterThreads"
    /\ \E to \in {"sessionConnected", "sessionCreated"} :
         /\ pmExitEarly => to = "sessionConnected"
         /\ pmMain' = to
    /\ UNCHANGED <<numThread, usePub_s, pmLoop, pmThread, pmSession, pmExitEarly>>
    /\ UNCHANGED pmOthers

\* sessionConnected: solClient_session_disconnect
PmDisconnect ==
    /\ pmMain = "sessionConnected"
    /\ pmSession' = "disconnected"
    /\ pmMain' = "sessionCreated"
    /\ UNCHANGED <<numThread, usePub_s, pmLoop, pmThread, pmExitEarly>>
    /\ UNCHANGED pmOthers

\* sessionCreated: solClient_session_destroy; then the context thread is
\* stopped, the context destroyed, solClient_cleanup, return 0
PmDestroySession ==
    /\ pmMain = "sessionCreated"
    /\ pmSession' = "destroyed"
    /\ pmMain' = "done"
    /\ UNCHANGED <<numThread, usePub_s, pmLoop, pmThread, pmExitEarly>>
    /\ UNCHANGED pmOthers

\* a publisher thread comes to the end of pubThread
PmThreadReturns ==
    /\ \E t \in DOMAIN pmThread :
         /\ pmThread[t] = "running"
         /\ pmThread' = [pmThread EXCEPT ![t] = "returned"]
    /\ UNCHANGED <<pmMain, numThread, usePub_s, pmLoop, pmSession, pmExitEarly>>
    /\ UNCHANGED pmOthers

\* sigHandler: the first SIGINT sets exitEarly_s
PmSigHandler ==
    /\ ~pmExitEarly
    /\ pmMain # "done"
    /\ pmExitEarly' = TRUE
    /\ UNCHANGED <<pmMain, numThread, usePub_s, pmLoop, pmThread, pmSession>>
    /\ UNCHANGED pmOthers

PmNext ==
    \/ PmStartThread
    \/ PmWaitOnThread
    \/ PmAfterThreads
    \/ PmDisconnect
    \/ PmDestroySession
    \/ PmThreadReturns
    \/ PmSigHandler

InitPM == PmInit /\ FcIdle /\ AfIdle /\ AkIdle /\ TtIdle /\ PxIdle /\ NlIdle /\ TdIdle /\ TxIdle /\ MrIdle /\ CrIdle /\ RpIdle /\ PtIdle /\ CnIdle /\ RqIdle /\ RlIdle /\ QpIdle /\ PuIdle

SpecPM == InitPM /\ [][PmNext]_vars

\* C36: while a publisher thread of perfTest that was started is still
\* running, the session is connected: main() disconnects and destroys the
\* session only after it has joined every thread it started.
C36_NoDisconnectUnderRunningThread ==
    pmSession # "connected" =>
        \A t \in DOMAIN pmThread : pmThread[t] \in {"none", "joined"}

(***************************************************************************)
(* common.c: common_parseUsernameAndVpn                                    *)
(***************************************************************************)
\* the characters of inName: one that is not '@', and '@'
PuChars == {"a", "@"}
\* '\0', and the content of a byte no one has written
Nul == "NUL"
PuUnwritten == "?"

RECURSIVE PuStrings(_)
PuStrings(n) ==
    IF n = 0 THEN {<<>>}
    ELSE PuStrings(n - 1) \cup
         {Append(s, ch) : s \in {t \in PuStrings(n - 1) : Len(t) = n - 1}, ch \in PuChars}

\* the state of the function at its first statement: c = inName (position 1),
\* dest = outUsername, remaining = usernameLen
PuEntry(ulen, vlen) ==
    [dest |-> "outUsername", at |-> 0, remaining |-> ulen,
     user |-> [i \in 0..(ulen - 1) |-> PuUnwritten],
     vpn  |-> [i \in 0..(vlen - 1) |-> PuUnwritten],
     outside |-> {}]

\* dest[i] = ch, where dest is st.dest: a store into the buffer when i is one
\* of its indexes, a store outside of it otherwise
PuStore(st, i, ch) ==
    IF st.dest = "outUsername"
      THEN IF i \in DOMAIN st.user
             THEN [st EXCEPT !.user[i] = ch]
             ELSE [st EXCEPT !.outside = @ \cup {<<"outUsername", i>>}]
      ELSE IF i \in DOMAIN st.vpn
             THEN [st EXCEPT !.vpn[i] = ch]
             ELSE [st EXCEPT !.outside = @ \cup {<<"outVpn", i>>}]

\* one turn of while ( *c ) for the character ch
PuChar(st, ch, vlen) ==
    IF ch = "@"
      THEN [PuStore(st, st.at, Nul) EXCEPT
                !.dest = "outVpn", !.at = 0, !.remaining = vlen]
      ELSE IF st.remaining # 0
             THEN [PuStore(st, st.at, ch) EXCEPT
                       !.at = @ + 1, !.remaining = @ - 1]
             ELSE PuStore(st, st.at - 1, Nul)

RECURSIVE PuWhile(_, _, _, _)
PuWhile(name, c, st, vlen) ==
    IF c > Len(name) THEN st
    ELSE PuWhile(name, c + 1, PuChar(st, name[c], vlen), vlen)

\* the whole function: the loop, then *dest = '\0'
common_parseUsernameAndVpn(name, ulen, vlen) ==
    LET st == PuWhile(name, 1, PuEntry(ulen, vlen), vlen)
    IN  PuStore(st, st.at, Nul)

\* the caller: case 'u' of common_parseCommandOptions hands optarg and the
\* two arrays with their sizeof
PuInit ==
    /\ puMain = "call"
    /\ inName \in PuStrings(MaxLen)
    /\ usernameLen \in 1..MaxBuf
    /\ vpnLen \in 1..MaxBuf
    /\ outUsername = [i \in 0..(usernameLen - 1) |-> PuUnwritten]
    /\ outVpn = [i \in 0..(vpnLen - 1) |-> PuUnwritten]
    /\ puOutside = {}

PuCall ==
    /\ puMain = "call"
    /\ LET st == common_parseUsernameAndVpn(inName, usernameLen, vpnLen)
       IN  /\ outUsername' = st.user
           /\ outVpn' = st.vpn
           /\ puOutside' = st.outside
    /\ puMain' = "returned"
    /\ UNCHANGED <<inName, usernameLen, vpnLen>>
    /\ UNCHANGED puOthers

PuNext == PuCall

InitPU == PuInit /\ FcIdle /\ AfIdle /\ AkIdle /\ TtIdle /\ PxIdle /\ NlIdle /\ TdIdle /\ TxIdle /\ MrIdle /\ CrIdle /\ RpIdle /\ PtIdle /\ CnIdle /\ RqIdle /\ RlIdle /\ QpIdle /\ PmIdle

SpecPU == InitPU /\ [][PuNext]_vars

\* C37: common_parseUsernameAndVpn is buffer-bounded: when it has returned,
\* it has stored nothing outside outUsername[0..usernameLen-1] and
\* outVpn[0..vpnLen-1], and outUsername holds a '\0', whatever the lengths
\* of the parts of inName and however many '@' it has.
C37_BufferBounded ==
    puMain = "returned" =>
        /\ puOutside = {}
        /\ \E i \in DOMAIN outUsername : outUsername[i] = Nul
=============================================================================
